---------------------------- MODULE Spec2Model ----------------------------
(***************************************************************************)
(* The AutoHotkey lexer of lexilla/lexers/LexAhk.cxx: the restart          *)
(* adjustment, the per-character scanner (ColouriseAhkDoc) and the fold    *)
(* pass (FoldAhkDoc), as a state machine over a document buffer, its       *)
(* per-character style array and its per-line fold levels.                 *)
(*                                                                         *)
(* Characters are one-character strings; two characters that a TLA+        *)
(* string cannot hold are named: NUL (the 0 that StyleContext reads past   *)
(* the document) and BackTick (the escape character).  Positions and line  *)
(* numbers are 0-based as in the source; documents are sequences, so       *)
(* position p is element p + 1.                                            *)
(***************************************************************************)
EXTENDS Integers, Sequences, FiniteSets, TLC

VARIABLES doc, tables, styles, levels, endStyled, pc, sc, fd, req, prev,
          runs, edits

vars ==
    <<doc, tables, styles, levels, endStyled, pc, sc, fd, req, prev, runs,
      edits>>

(***************************************************************************)
(* Characters                                                              *)
(***************************************************************************)
NUL == "NUL"
BackTick == "BQ"
DQuote == "\""
SQuote == "'"
LF == "\n"

DigitChars == {"0", "1", "2", "3", "4", "5", "6", "7", "8", "9"}
UpperSeq == <<"A", "B", "C", "D", "E", "F", "G", "H", "I", "J", "K", "L", "M",
              "N", "O", "P", "Q", "R", "S", "T", "U", "V", "W", "X", "Y", "Z">>
LowerSeq == <<"a", "b", "c", "d", "e", "f", "g", "h", "i", "j", "k", "l", "m",
              "n", "o", "p", "q", "r", "s", "t", "u", "v", "w", "x", "y", "z">>
UpperChars == {UpperSeq[i] : i \in 1..26}
LowerChars == {LowerSeq[i] : i \in 1..26}

\* isalnum() on an ASCII character
isalnum(ch) == ch \in DigitChars \cup UpperChars \cup LowerChars

\* tolower() on one character
tolower(ch) ==
    IF ch \in UpperChars
    THEN LowerSeq[CHOOSE i \in 1..26 : UpperSeq[i] = ch]
    ELSE ch

IsADigit(ch) == ch \in DigitChars

isspacechar(ch) == ch \in {" ", "\t", "\n", "\r"}

IsTypeCharacter(ch) == ch = "$"

IsAWordChar(ch) == ch /= NUL /\ (isalnum(ch) \/ ch = "_")

IsAWordStart(ch) ==
    ch /= NUL /\ (isalnum(ch) \/ ch \in {"_", "@", "#", "$", "."})

IsAOperator(ch) ==
    IF isalnum(ch) THEN FALSE
    ELSE ch \in {"+", "-", "*", "/", "&", "^", "=", "<", ">", ",", "%"}

\* a C string given as a TLA+ sequence of characters
Lowered(w) == [i \in 1..Len(w) |-> tolower(w[i])]

(***************************************************************************)
(* Style numbers (SciLexer.h), named as in the source                      *)
(***************************************************************************)
SCE_AHK_DEFAULT == "DEFAULT"
SCE_AHK_COMMENT == "COMMENT"
SCE_AHK_COMMENTBLOCK == "COMMENTBLOCK"
SCE_AHK_KEYWORD == "KEYWORD"
SCE_AHK_KEYWORD2 == "KEYWORD2"
SCE_AHK_KEYWORD3 == "KEYWORD3"
SCE_AHK_KEYWORD4 == "KEYWORD4"
SCE_AHK_KEYWORD5 == "KEYWORD5"
SCE_AHK_KEYWORD6 == "KEYWORD6"
SCE_AHK_KEYWORD7 == "KEYWORD7"
SCE_AHK_KEYWORD8 == "KEYWORD8"
SCE_AHK_NUMBER == "NUMBER"
SCE_AHK_STRING == "STRING"
SCE_AHK_OPERATOR == "OPERATOR"
SCE_AHK_VARIABLE == "VARIABLE"
SCE_AHK_ASSIGNMENT == "ASSIGNMENT"
SCE_AHK_COMOBJ == "COMOBJ"
SCE_AHK_FOLD == "FOLD"

AllStyles ==
    {SCE_AHK_DEFAULT, SCE_AHK_COMMENT, SCE_AHK_COMMENTBLOCK, SCE_AHK_KEYWORD,
     SCE_AHK_KEYWORD2, SCE_AHK_KEYWORD3, SCE_AHK_KEYWORD4, SCE_AHK_KEYWORD5,
     SCE_AHK_KEYWORD6, SCE_AHK_KEYWORD7, SCE_AHK_KEYWORD8, SCE_AHK_NUMBER,
     SCE_AHK_STRING, SCE_AHK_OPERATOR, SCE_AHK_VARIABLE, SCE_AHK_ASSIGNMENT,
     SCE_AHK_COMOBJ, SCE_AHK_FOLD}

(***************************************************************************)
(* Document accessor (Accessor / LexAccessor): characters, lines, styles   *)
(***************************************************************************)
Length(d) == Len(d)

\* SafeGetCharAt(position, chDefault)
SafeGetCharAt(d, pos, chDefault) ==
    IF pos >= 0 /\ pos < Len(d) THEN d[pos + 1] ELSE chDefault

\* StyleAt(position): 0 outside the document
StyleAt(st, pos) ==
    IF pos >= 0 /\ pos < Len(st) THEN st[pos + 1] ELSE SCE_AHK_DEFAULT

\* the 1-based indices of the line feeds of d
LineFeeds(d) == {i \in 1..Len(d) : d[i] = LF}

\* number of lines of the document: one more than its line ends
LinesTotal(d) == Cardinality(LineFeeds(d)) + 1

\* GetLine(position): the line holding the position, the last line past the end
GetLine(d, pos) == Cardinality({i \in LineFeeds(d) : i <= pos})

\* LineStart(line): Length() for the line after the last, 0 outside
LineStart(d, line) ==
    IF line <= 0 THEN 0
    ELSE IF line < LinesTotal(d)
         THEN CHOOSE i \in LineFeeds(d) :
                  Cardinality({j \in LineFeeds(d) : j <= i}) = line
         ELSE IF line = LinesTotal(d) THEN Len(d) ELSE 0

\* WordList::InList
InList(list, w) == w \in list

(***************************************************************************)
(* StyleContext: the cursor of the scan.  A context is a record            *)
(*   currentPos, endPos, lengthDocument   the cursor and the span          *)
(*   state, ch, chPrev, chNext, atLineEnd as in StyleContext               *)
(*   currentLine, lineStartNext           the line bookkeeping of Forward  *)
(*   startSeg, out                        LexAccessor's segment start and  *)
(*                                        the style buffer written by      *)
(*                                        ColourTo, flushed by Complete    *)
(*   si, ni, ci, ss, FullWord             the locals of ColouriseAhkDoc    *)
(*   starts                               history: the state each token    *)
(*                                        was opened with from Default     *)
(*   writes                               history: how often ColourTo has  *)
(*                                        styled each position             *)
(*   steps                                history: the loop iterations     *)
(***************************************************************************)

\* LexAccessor::ColourTo(pos, chAttr): style startSeg..pos, then move startSeg
ColourTo(s, pos, chAttr) ==
    IF pos = s.startSeg - 1 THEN [s EXCEPT !.startSeg = pos + 1]
    ELSE IF pos < s.startSeg THEN s
    ELSE [s EXCEPT
            !.out = [i \in 1..Len(s.out) |->
                        IF i - 1 >= s.startSeg /\ i - 1 <= pos
                        THEN chAttr ELSE s.out[i]],
            !.writes = [i \in 1..Len(s.out) |->
                           IF i - 1 >= s.startSeg /\ i - 1 <= pos
                           THEN s.writes[i] + 1 ELSE s.writes[i]],
            !.startSeg = pos + 1]

\* the position ColourTo is given by SetState, ForwardSetState and Complete
ColourPos(s) ==
    s.currentPos - (IF s.currentPos > s.lengthDocument THEN 2 ELSE 1)

ChangeState(s, state_) == [s EXCEPT !.state = state_]

SetState(s, state_) ==
    [ColourTo(s, ColourPos(s), s.state) EXCEPT !.state = state_]

\* GetNextChar's end-of-line test
AtLineEnd(d, currentPos, currentLine, lineStartNext) ==
    IF currentLine < GetLine(d, Len(d))
    THEN currentPos >= lineStartNext - 1
    ELSE currentPos >= lineStartNext

Forward(d, s) ==
    IF s.currentPos < s.endPos
    THEN LET line == IF s.atLineEnd THEN s.currentLine + 1 ELSE s.currentLine
             lsn == IF s.atLineEnd THEN LineStart(d, line + 1)
                    ELSE s.lineStartNext
             pos == s.currentPos + 1
         IN [s EXCEPT
               !.currentLine = line,
               !.lineStartNext = lsn,
               !.chPrev = s.ch,
               !.currentPos = pos,
               !.ch = s.chNext,
               !.chNext = SafeGetCharAt(d, pos + 1, NUL),
               !.atLineEnd = AtLineEnd(d, pos, line, lsn)]
    ELSE [s EXCEPT !.chPrev = " ", !.ch = " ", !.chNext = " ",
                   !.atLineEnd = TRUE]

ForwardSetState(d, s, state_) ==
    LET f == Forward(d, s)
    IN [ColourTo(f, ColourPos(f), f.state) EXCEPT !.state = state_]

More(s) == s.currentPos < s.endPos

\* a variant that leaves the last segment as it is
CompleteNothing(s) == s

\* Complete(): colour the last segment and flush
Complete(s) == ColourTo(s, ColourPos(s), s.state)

\* GetCurrentLowered(s, len): the segment's text, lower-cased, at most len - 1
GetCurrentLowered(d, s, len) ==
    LET endPos_ == IF s.currentPos < s.startSeg + len - 1
                   THEN s.currentPos ELSE s.startSeg + len - 1
        e == IF endPos_ < Len(d) THEN endPos_ ELSE Len(d)
    IN Lowered(SubSeq(d, s.startSeg + 1, e))

\* StyleContext sc(startPos, length, initStyle, styler)
StyleContext(d, st, startPos, length, initStyle) ==
    LET line == GetLine(d, startPos)
        lsn == LineStart(d, line + 1)
    IN [currentPos |-> startPos,
        endPos |-> IF startPos + length < Len(d) THEN startPos + length
                   ELSE Len(d) + 1,
        lengthDocument |-> Len(d),
        state |-> initStyle,
        chPrev |-> SafeGetCharAt(d, startPos - 1, NUL),
        ch |-> SafeGetCharAt(d, startPos, NUL),
        chNext |-> SafeGetCharAt(d, startPos + 1, NUL),
        atLineEnd |-> AtLineEnd(d, startPos, line, lsn),
        currentLine |-> line,
        lineStartNext |-> lsn,
        startSeg |-> startPos,
        out |-> st,
        si |-> 0, ni |-> 0, ci |-> 0, ss |-> 0,
        FullWord |-> <<>>,
        starts |-> [p \in 0..Len(d) |-> "none"],
        writes |-> [i \in 1..Len(st) |-> 0],
        steps |-> 0]

(***************************************************************************)
(* GetSendKey(szLine, szKey): splits the bracketed text at the first run   *)
(* of spaces; the result is <<nFlag, szKey>>, nFlag 1 bad, 0 good.         *)
(* The loop state is <<nFlag, nStartFound, szKey, szSpecial, nSpecNum>>.   *)
(***************************************************************************)
GetSendKeyChar(g, cTemp) ==
    LET nStartFound == IF cTemp = "{" THEN 1 ELSE g.nStartFound
        h == [g EXCEPT !.nStartFound = nStartFound]
    IN IF nStartFound /= 1 THEN h
       ELSE IF cTemp = " " /\ g.nFlag = 0
            THEN [h EXCEPT !.nFlag = 1, !.szKey = Append(@, "}")]
       ELSE IF cTemp = " " THEN h
       ELSE IF g.nFlag = 0 THEN [h EXCEPT !.szKey = Append(@, cTemp)]
       ELSE IF g.nFlag = 1 /\ cTemp /= "}"
            THEN [h EXCEPT !.szSpecial = Append(@, cTemp),
                           !.nSpecNum = IF IsADigit(cTemp) THEN @ ELSE 0]
       ELSE h

RECURSIVE GetSendKeyLoop(_, _, _)
GetSendKeyLoop(szLine, nPos, g) ==
    IF nPos > Len(szLine) THEN g
    ELSE GetSendKeyLoop(szLine, nPos + 1, GetSendKeyChar(g, szLine[nPos]))

SendKeyModifiers ==
    {<<"d", "o", "w", "n">>, <<"u", "p">>, <<"o", "n">>, <<"o", "f", "f">>,
     <<"t", "o", "g", "g", "l", "e">>}

GetSendKey(szLine) ==
    LET g == GetSendKeyLoop(szLine, 1,
                 [nFlag |-> 0, nStartFound |-> 0, szKey |-> <<>>,
                  szSpecial |-> <<>>, nSpecNum |-> 1])
    IN <<IF g.szSpecial \in SendKeyModifiers \/ g.nSpecNum = 1 THEN 0 ELSE 1,
         g.szKey>>

(***************************************************************************)
(* ColouriseAhkDoc: one operator per case of the switch on sc.state        *)
(***************************************************************************)

\* a variant that appends the character whatever the word's length
SaveFullWordUnchecked(s, CurWord) ==
    IF IsAWordChar(s.ch) \/ s.ch = "}"
    THEN [s EXCEPT !.FullWord = Append(CurWord, tolower(s.ch))]
    ELSE s

\* char FullWord[100]: the current word plus the current character
SaveFullWord(s, CurWord) ==
    IF IsAWordChar(s.ch) \/ s.ch = "}"
    THEN [s EXCEPT !.FullWord =
            IF Len(CurWord) < 99 THEN Append(CurWord, tolower(s.ch))
            ELSE CurWord]
    ELSE s

\* a variant that leaves the comment at the closing '/' itself
CaseCommentBlockAtSlash(s) ==
    IF s.ch = "/" /\ s.chPrev = "*" THEN SetState(s, SCE_AHK_DEFAULT) ELSE s

CaseCommentBlock(s) ==
    IF s.ci = 1 THEN SetState([s EXCEPT !.ci = 0], SCE_AHK_DEFAULT)
    ELSE IF s.ch = "/" /\ s.chPrev = "*" THEN [s EXCEPT !.ci = 1]
    ELSE s

\* a variant in which a line comment does not end with its line
CaseCommentPastLineEnd(s) == s

CaseComment(s) ==
    IF s.atLineEnd THEN SetState(s, SCE_AHK_DEFAULT) ELSE s

CaseOperator(s) ==
    IF s.chPrev = "." /\ IsAWordChar(s.ch)
    THEN SetState(s, SCE_AHK_COMOBJ)
    ELSE SetState(s, SCE_AHK_DEFAULT)

CaseKeyword6(s) ==
    LET s1 == IF s.ch = ";" THEN SetState(s, SCE_AHK_COMMENT) ELSE s
    IN IF s1.atLineEnd THEN SetState(s1, SCE_AHK_DEFAULT) ELSE s1

\* the directive prefixes that a '-' may follow
DashWords ==
    {<<"#", "c", "o", "m", "m", "e", "n", "t", "s">>,
     <<"#", "i", "n", "c", "l", "u", "d", "e">>}

\* a variant that does not retag a token that no table holds
ClassifyKeywordNoRetag(tb, s, CurWord) ==
    IF InList(tb[1], CurWord)
    THEN SetState(ChangeState(s, SCE_AHK_KEYWORD), SCE_AHK_DEFAULT)
    ELSE IF InList(tb[2], CurWord)
    THEN SetState(ChangeState(s, SCE_AHK_KEYWORD2), SCE_AHK_DEFAULT)
    ELSE IF InList(tb[3], CurWord)
    THEN SetState(ChangeState(s, SCE_AHK_KEYWORD3), SCE_AHK_DEFAULT)
    ELSE IF InList(tb[4], CurWord)
    THEN SetState(ChangeState(s, SCE_AHK_KEYWORD4), SCE_AHK_DEFAULT)
    ELSE IF InList(tb[5], CurWord)
    THEN SetState(ChangeState(s, SCE_AHK_KEYWORD5), SCE_AHK_DEFAULT)
    ELSE IF InList(tb[6], CurWord)
    THEN SetState(ChangeState(s, SCE_AHK_KEYWORD6), SCE_AHK_KEYWORD6)
    ELSE IF InList(tb[7], CurWord) /\ ~IsAOperator(s.ch)
    THEN SetState(ChangeState(s, SCE_AHK_KEYWORD7), SCE_AHK_DEFAULT)
    ELSE IF InList(tb[8], CurWord)
    THEN SetState(ChangeState(s, SCE_AHK_KEYWORD8), SCE_AHK_DEFAULT)
    ELSE IF CurWord = <<"_">>
    THEN SetState(ChangeState(s, SCE_AHK_OPERATOR), SCE_AHK_DEFAULT)
    ELSE IF ~IsAWordChar(s.ch)
    THEN SetState(s, SCE_AHK_DEFAULT)
    ELSE s

\* the classification chain of a finished Keyword token
ClassifyKeyword(tb, s, CurWord) ==
    IF InList(tb[1], CurWord)
    THEN SetState(ChangeState(s, SCE_AHK_KEYWORD), SCE_AHK_DEFAULT)
    ELSE IF InList(tb[2], CurWord)
    THEN SetState(ChangeState(s, SCE_AHK_KEYWORD2), SCE_AHK_DEFAULT)
    ELSE IF InList(tb[3], CurWord)
    THEN SetState(ChangeState(s, SCE_AHK_KEYWORD3), SCE_AHK_DEFAULT)
    ELSE IF InList(tb[4], CurWord)
    THEN SetState(ChangeState(s, SCE_AHK_KEYWORD4), SCE_AHK_DEFAULT)
    ELSE IF InList(tb[5], CurWord)
    THEN SetState(ChangeState(s, SCE_AHK_KEYWORD5), SCE_AHK_DEFAULT)
    ELSE IF InList(tb[6], CurWord)
    THEN SetState(ChangeState(s, SCE_AHK_KEYWORD6), SCE_AHK_KEYWORD6)
    ELSE IF InList(tb[7], CurWord) /\ ~IsAOperator(s.ch)
    THEN SetState(ChangeState(s, SCE_AHK_KEYWORD7), SCE_AHK_DEFAULT)
    ELSE IF InList(tb[8], CurWord)
    THEN SetState(ChangeState(s, SCE_AHK_KEYWORD8), SCE_AHK_DEFAULT)
    ELSE IF CurWord = <<"_">>
    THEN SetState(ChangeState(s, SCE_AHK_OPERATOR), SCE_AHK_DEFAULT)
    ELSE IF ~IsAWordChar(s.ch)
    THEN SetState(ChangeState(s, SCE_AHK_DEFAULT), SCE_AHK_DEFAULT)
    ELSE s

\* a variant in which the type character ends the token like any other
CaseKeywordTypeEnds(tb, s, CurWord) ==
    LET s1 == IF ~(IsAWordChar(s.ch) \/ (s.ch = "-" /\ CurWord \in DashWords))
              THEN ClassifyKeyword(tb, s, CurWord)
              ELSE s
    IN IF s1.atLineEnd THEN SetState(s1, SCE_AHK_DEFAULT) ELSE s1

CaseKeyword(tb, s, CurWord) ==
    LET s1 == IF ~(IsAWordChar(s.ch) \/ (s.ch = "-" /\ CurWord \in DashWords))
                 /\ ~IsTypeCharacter(s.ch)
              THEN ClassifyKeyword(tb, s, CurWord)
              ELSE s
    IN IF s1.atLineEnd THEN SetState(s1, SCE_AHK_DEFAULT) ELSE s1

\* a variant that allows the lower-case hex letters only
HexLettersLower == {"a", "b", "c", "d", "e", "f"}

\* the letters allowed inside a hex number
HexLetters == {"a", "b", "c", "d", "e", "f", "A", "B", "C", "D", "E", "F"}

\* a variant that starts the exponent in a plain integer only
CaseNumberIntegerExponent(s, CurWord) ==
    IF CurWord = <<"0">> /\ s.ch \in {"x", "X"} /\ s.ni = 0
    THEN [s EXCEPT !.ni = 2]
    ELSE IF IsADigit(s.chPrev) /\ s.ch \in {"e", "E"} /\ s.ni = 0
    THEN [s EXCEPT !.ni = 3]
    ELSE IF s.ni = 2 /\ s.ch \in HexLetters
    THEN s
    ELSE IF s.ch = "."
    THEN [s EXCEPT !.ni = IF s.ni = 0 THEN 1 ELSE 9]
    ELSE IF ~IsADigit(s.ch)
    THEN SetState(IF s.ni = 9 THEN ChangeState(s, SCE_AHK_DEFAULT) ELSE s,
                  SCE_AHK_DEFAULT)
    ELSE s

\* ni: error=9 normal=0 normal+dec=1 hex=2 E-not=3
CaseNumber(s, CurWord) ==
    IF CurWord = <<"0">> /\ s.ch \in {"x", "X"} /\ s.ni = 0
    THEN [s EXCEPT !.ni = 2]
    ELSE IF IsADigit(s.chPrev) /\ s.ch \in {"e", "E"} /\ s.ni <= 1
    THEN [s EXCEPT !.ni = 3]
    ELSE IF s.ni = 2 /\ s.ch \in HexLetters
    THEN s
    ELSE IF s.ch = "."
    THEN [s EXCEPT !.ni = IF s.ni = 0 THEN 1 ELSE 9]
    ELSE IF ~IsADigit(s.ch)
    THEN SetState(IF s.ni = 9 THEN ChangeState(s, SCE_AHK_DEFAULT) ELSE s,
                  SCE_AHK_DEFAULT)
    ELSE s

CaseVariable(s) ==
    IF s.ch = "." /\ ~IsADigit(s.chNext) THEN SetState(s, SCE_AHK_OPERATOR)
    ELSE IF ~IsAWordChar(s.ch) THEN SetState(s, SCE_AHK_DEFAULT)
    ELSE s

\* a variant that retags as Default a member that table 1 does not hold
CaseComObjRetagDefault(tb, s, CurWord) ==
    IF ~IsAWordChar(s.ch)
    THEN IF InList(tb[1], CurWord)
         THEN SetState(ChangeState(s, SCE_AHK_KEYWORD), SCE_AHK_DEFAULT)
         ELSE SetState(ChangeState(s, SCE_AHK_DEFAULT), SCE_AHK_DEFAULT)
    ELSE s

CaseComObj(tb, s, CurWord) ==
    IF ~IsAWordChar(s.ch)
    THEN IF InList(tb[1], CurWord)
         THEN SetState(ChangeState(s, SCE_AHK_KEYWORD), SCE_AHK_DEFAULT)
         ELSE SetState(s, SCE_AHK_DEFAULT)
    ELSE s

\* a variant that lets either quote close a string
ClosesStringEitherQuote(s) == s.ch \in {DQuote, SQuote}

\* si: 0 for a string opened by ", 1 for one opened by '
ClosesString(s) ==
    (s.si = 0 /\ s.ch = DQuote) \/ (s.si = 1 /\ s.ch = SQuote)

CaseString(d, s) ==
    LET s1 == IF s.ss = 1
              THEN SetState(ChangeState([s EXCEPT !.ss = 0],
                                        SCE_AHK_ASSIGNMENT), SCE_AHK_STRING)
              ELSE s
    IN IF ClosesString(s1) THEN ForwardSetState(d, s1, SCE_AHK_DEFAULT)
       ELSE IF s1.ch = BackTick
            THEN SetState([s1 EXCEPT !.ss = 1], SCE_AHK_ASSIGNMENT)
       ELSE s1

CaseAssignment(s) ==
    IF s.chPrev = ":" /\ s.ch = "=" THEN SetState(s, SCE_AHK_ASSIGNMENT)
    ELSE IF s.ss = 1 THEN SetState(s, SCE_AHK_STRING)
    ELSE SetState(s, SCE_AHK_DEFAULT)

\* a variant that retags the bracket as Default when it leaves the state
CaseFoldRetagDefault(s) ==
    SetState(ChangeState(s, SCE_AHK_DEFAULT), SCE_AHK_DEFAULT)

CaseFold(s) == SetState(s, SCE_AHK_DEFAULT)

\* switch (sc.state)
Switch(d, tb, s, CurWord) ==
    CASE s.state = SCE_AHK_COMMENTBLOCK -> CaseCommentBlock(s)
      [] s.state = SCE_AHK_COMMENT -> CaseComment(s)
      [] s.state = SCE_AHK_OPERATOR -> CaseOperator(s)
      [] s.state = SCE_AHK_KEYWORD6 -> CaseKeyword6(s)
      [] s.state = SCE_AHK_KEYWORD -> CaseKeyword(tb, s, CurWord)
      [] s.state = SCE_AHK_NUMBER -> CaseNumber(s, CurWord)
      [] s.state = SCE_AHK_VARIABLE -> CaseVariable(s)
      [] s.state = SCE_AHK_COMOBJ -> CaseComObj(tb, s, CurWord)
      [] s.state = SCE_AHK_STRING -> CaseString(d, s)
      [] s.state = SCE_AHK_ASSIGNMENT -> CaseAssignment(s)
      [] s.state = SCE_AHK_FOLD -> CaseFold(s)
      [] OTHER -> s

BracketChars == {"{", "}", "(", ")", "[", "]"}

\* a token opened from Default: the new state, and the history of openings
Open(s, state_) ==
    [SetState(s, state_) EXCEPT !.starts[s.currentPos] = state_]

\* "Determine if a new state should be entered"
NewState(s) ==
    LET t == IF s.ch = ";" THEN Open(s, SCE_AHK_COMMENT)
             ELSE IF s.ch = "/" /\ s.chNext = "*"
             THEN Open(s, SCE_AHK_COMMENTBLOCK)
             ELSE IF s.ch = DQuote
             THEN [Open(s, SCE_AHK_STRING) EXCEPT !.si = 0]
             ELSE IF s.ch = SQuote
             THEN [Open(s, SCE_AHK_STRING) EXCEPT !.si = 1]
             ELSE IF s.ch \in BracketChars THEN Open(s, SCE_AHK_FOLD)
             ELSE IF s.ch = "#" THEN Open(s, SCE_AHK_KEYWORD)
             ELSE IF s.ch = "$" THEN Open(s, SCE_AHK_VARIABLE)
             ELSE IF s.ch = "." /\ ~IsADigit(s.chNext)
             THEN Open(s, SCE_AHK_OPERATOR)
             ELSE IF s.ch = "@" THEN Open(s, SCE_AHK_KEYWORD)
             ELSE IF IsADigit(s.ch) \/ (s.ch = "." /\ IsADigit(s.chPrev))
             THEN [Open(s, SCE_AHK_NUMBER) EXCEPT !.ni = 0]
             ELSE IF IsAWordStart(s.ch) THEN Open(s, SCE_AHK_KEYWORD)
             ELSE IF IsAOperator(s.ch) THEN Open(s, SCE_AHK_OPERATOR)
             ELSE IF s.ch = ":" /\ s.chNext = "="
             THEN Open(s, SCE_AHK_ASSIGNMENT)
             ELSE IF s.atLineEnd THEN SetState(s, SCE_AHK_DEFAULT)
             ELSE s
    IN [t EXCEPT !.ss = 0]

\* one iteration of  for (; sc.More(); sc.Forward())
LoopBody(d, tb, s) ==
    LET CurWord == GetCurrentLowered(d, s, 100)
        s1 == SaveFullWord(s, CurWord)
        s2 == Switch(d, tb, s1, CurWord)
        s3 == IF s2.state = SCE_AHK_DEFAULT THEN NewState(s2) ELSE s2
    IN [Forward(d, s3) EXCEPT !.steps = @ + 1]

\* "Colourize the last word correctly": the Keyword state at the span's end
LastWord(tb, s) ==
    IF s.state /= SCE_AHK_KEYWORD THEN s
    ELSE IF s.FullWord = <<"/", "*">>
    THEN SetState(ChangeState(s, SCE_AHK_COMMENTBLOCK), SCE_AHK_COMMENTBLOCK)
    ELSE IF InList(tb[1], s.FullWord)
    THEN SetState(ChangeState(s, SCE_AHK_KEYWORD), SCE_AHK_KEYWORD)
    ELSE IF InList(tb[2], s.FullWord)
    THEN SetState(ChangeState(s, SCE_AHK_KEYWORD2), SCE_AHK_KEYWORD2)
    ELSE IF InList(tb[3], s.FullWord)
    THEN SetState(ChangeState(s, SCE_AHK_KEYWORD3), SCE_AHK_KEYWORD3)
    ELSE IF InList(tb[5], s.FullWord)
    THEN SetState(ChangeState(s, SCE_AHK_KEYWORD5), SCE_AHK_KEYWORD5)
    ELSE IF InList(tb[6], s.FullWord)
    THEN SetState(ChangeState(s, SCE_AHK_KEYWORD6), SCE_AHK_KEYWORD6)
    ELSE IF InList(tb[7], s.FullWord) /\ s.atLineEnd
    THEN SetState(ChangeState(s, SCE_AHK_KEYWORD7), SCE_AHK_KEYWORD7)
    ELSE IF InList(tb[8], s.FullWord)
    THEN SetState(ChangeState(s, SCE_AHK_KEYWORD8), SCE_AHK_KEYWORD8)
    ELSE SetState(ChangeState(s, SCE_AHK_DEFAULT), SCE_AHK_DEFAULT)

\* the KEYWORD4 state at the span's end: the send key is validated
LastSendKey(tb, s) ==
    IF s.state = SCE_AHK_KEYWORD4 /\ s.chPrev = "}" /\ s.ch /= "}"
    THEN LET r == GetSendKey(s.FullWord)
             sk == r[2]
             style == IF r[1] = 1 THEN SCE_AHK_STRING
                      ELSE IF Len(sk) = 3 THEN SCE_AHK_KEYWORD4
                      ELSE IF InList(tb[4], sk) THEN SCE_AHK_KEYWORD4
                      ELSE SCE_AHK_STRING
         IN SetState(ChangeState(s, style), SCE_AHK_STRING)
    ELSE s

\* what follows the loop: the last word, the send key, sc.Complete()
Finish(tb, s) == Complete(LastSendKey(tb, LastWord(tb, s)))

(***************************************************************************)
(* ColouriseAhkDoc before the loop: the restart adjustment, the length,    *)
(* the StyleContext and the string indicator                               *)
(***************************************************************************)

\* a variant of the walk that does not stop at line 0
RECURSIVE RestartWalkPastTop(_, _, _)
RestartWalkPastTop(d, st, r) ==
    IF r.lineCurrent > -2 /\ StyleAt(st, r.lineCurrent) /= SCE_AHK_DEFAULT
    THEN RestartWalkPastTop(d, st,
             [lineCurrent |-> r.lineCurrent - 1,
              startPos |-> LineStart(d, r.lineCurrent - 1),
              initStyle |-> SCE_AHK_DEFAULT,
              steps |-> r.steps + 1])
    ELSE r

\* while (lineCurrent > 0 && styler.StyleAt(lineCurrent) != SCE_AHK_DEFAULT)
RECURSIVE RestartWalk(_, _, _)
RestartWalk(d, st, r) ==
    IF r.lineCurrent > 0 /\ StyleAt(st, r.lineCurrent) /= SCE_AHK_DEFAULT
    THEN RestartWalk(d, st,
             [lineCurrent |-> r.lineCurrent - 1,
              startPos |-> LineStart(d, r.lineCurrent - 1),
              initStyle |-> SCE_AHK_DEFAULT,
              steps |-> r.steps + 1])
    ELSE r

\* the start position and start style the scan really uses, and the steps
\* the walk took
Restart(d, st, startPos, initStyle) ==
    LET r == [lineCurrent |-> GetLine(d, startPos), startPos |-> startPos,
              initStyle |-> initStyle, steps |-> 0]
    IN IF initStyle /= SCE_AHK_DEFAULT THEN RestartWalk(d, st, r) ELSE r

\* a variant that leaves the length as it was requested
AdjustedLengthAsRequested(d, length, s_startPos, startPos) ==
    IF length > Len(d) THEN Len(d) ELSE length

\* the length after the adjustment, clamped to the document
AdjustedLength(d, length, s_startPos, startPos) ==
    LET l == length + s_startPos - startPos
    IN IF l > Len(d) THEN Len(d) ELSE l

\* while (pos > 0 && styler.StyleAt(pos - 1) == SCE_AHK_STRING) pos--;
RECURSIVE StringRunStart(_, _)
StringRunStart(st, pos) ==
    IF pos > 0 /\ StyleAt(st, pos - 1) = SCE_AHK_STRING
    THEN StringRunStart(st, pos - 1)
    ELSE pos

\* si when the scan starts inside a string
RecoverSi(d, st, startPos, initStyle) ==
    IF initStyle = SCE_AHK_STRING
    THEN LET opener == SafeGetCharAt(d, StringRunStart(st, startPos), " ")
         IN IF opener = DQuote THEN 0 ELSE 1
    ELSE 0

\* ColouriseAhkDoc up to the loop: the context the loop starts with
ColouriseAhkDocEnter(d, st, startPos, length, initStyle) ==
    LET r == Restart(d, st, startPos, initStyle)
        l == AdjustedLength(d, length, startPos, r.startPos)
    IN [StyleContext(d, st, r.startPos, l, r.initStyle) EXCEPT
          !.si = RecoverSi(d, st, r.startPos, r.initStyle)]

\* the loop run to its end, and what follows it
RECURSIVE ColouriseLoop(_, _, _)
ColouriseLoop(d, tb, s) ==
    IF More(s) THEN ColouriseLoop(d, tb, LoopBody(d, tb, s)) ELSE s

\* a whole call: the styles of the document after it
ColouriseAhkDoc(d, tb, st, startPos, length, initStyle) ==
    Finish(tb, ColouriseLoop(d, tb,
        ColouriseAhkDocEnter(d, st, startPos, length, initStyle))).out

(***************************************************************************)
(* Fold levels: 32-bit values with the header flag packed beside the       *)
(* level number                                                            *)
(***************************************************************************)
SC_FOLDLEVELBASE == 1024
SC_FOLDLEVELNUMBERMASK == 4095
SC_FOLDLEVELHEADERFLAG == 8192

RECURSIVE BitAndNat(_, _)
BitAndNat(a, b) ==
    IF a = 0 \/ b = 0 THEN 0
    ELSE (a % 2) * (b % 2) + 2 * BitAndNat(a \div 2, b \div 2)

\* x & m for a two's complement x and a mask m >= 0
BitAnd(x, m) == IF x >= 0 THEN BitAndNat(x, m) ELSE m - BitAndNat(-x - 1, m)

\* x | f for a two's complement x and a flag f >= 0
BitOr(x, f) ==
    IF x >= 0 THEN x + f - BitAndNat(x, f)
    ELSE -1 - ((-x - 1) - BitAndNat(-x - 1, f))

\* LevelAt(line): SC_FOLDLEVELBASE for a line that has no level
LevelAt(lv, line) ==
    IF line >= 0 /\ line < Len(lv) THEN lv[line + 1] ELSE SC_FOLDLEVELBASE

\* SetLevel(line, level): nothing for a line the document does not have
SetLevel(lv, line, level) ==
    IF line >= 0 /\ line < Len(lv) THEN [lv EXCEPT ![line + 1] = level]
    ELSE lv

(***************************************************************************)
(* FoldAhkDoc: the state before the loop, one iteration of it              *)
(***************************************************************************)
\* a variant that seeds the level with the whole stored value, flags included
FoldAhkDocEnterUnmasked(d, lv, startPos, length) ==
    LET currentLine == GetLine(d, startPos)
        levelPrev == LevelAt(lv, currentLine)
    IN [i |-> startPos, endPos |-> startPos + length,
        currentLine |-> currentLine, levelPrev |-> levelPrev,
        levelCurrent |-> levelPrev, chPrev |-> NUL, written |-> {}]

FoldAhkDocEnter(d, lv, startPos, length) ==
    LET currentLine == GetLine(d, startPos)
        levelPrev == BitAnd(LevelAt(lv, currentLine), SC_FOLDLEVELNUMBERMASK)
    IN [i |-> startPos, endPos |-> startPos + length,
        currentLine |-> currentLine, levelPrev |-> levelPrev,
        levelCurrent |-> levelPrev, chPrev |-> NUL, written |-> {}]

\* a variant that counts the braces only, not the other brackets
FoldDeltaBraces(ch, chPrev, style) ==
    (IF style = SCE_AHK_FOLD /\ ch \in {"{", "(", "["} THEN 1 ELSE 0)
    - (IF style = SCE_AHK_FOLD /\ ch = "}" THEN 1 ELSE 0)
    + (IF style = SCE_AHK_COMMENTBLOCK /\ ch = "*" /\ chPrev = "/"
       THEN 1 ELSE 0)
    - (IF style = SCE_AHK_COMMENTBLOCK /\ ch = "/" /\ chPrev = "*"
       THEN 1 ELSE 0)

\* a variant that counts a bracket whatever its style
FoldDeltaAnyStyle(ch, chPrev, style) ==
    (IF ch \in {"{", "(", "["} THEN 1 ELSE 0)
    - (IF ch \in {"}", ")", "]"} THEN 1 ELSE 0)
    + (IF style = SCE_AHK_COMMENTBLOCK /\ ch = "*" /\ chPrev = "/"
       THEN 1 ELSE 0)
    - (IF style = SCE_AHK_COMMENTBLOCK /\ ch = "/" /\ chPrev = "*"
       THEN 1 ELSE 0)

\* the change of levelCurrent at one character
FoldDelta(ch, chPrev, style) ==
    (IF style = SCE_AHK_FOLD /\ ch \in {"{", "(", "["} THEN 1 ELSE 0)
    - (IF style = SCE_AHK_FOLD /\ ch \in {"}", ")", "]"} THEN 1 ELSE 0)
    + (IF style = SCE_AHK_COMMENTBLOCK /\ ch = "*" /\ chPrev = "/"
       THEN 1 ELSE 0)
    - (IF style = SCE_AHK_COMMENTBLOCK /\ ch = "/" /\ chPrev = "*"
       THEN 1 ELSE 0)

\* a variant that stores the level at the line's end
FoldLineLevelAtEnd(levelPrev, levelCurrent) ==
    IF levelCurrent > levelPrev
    THEN BitOr(levelCurrent, SC_FOLDLEVELHEADERFLAG)
    ELSE levelCurrent

\* the value stored for a line: the level at its start, the header flag
\* when the level rose on the line
FoldLineLevel(levelPrev, levelCurrent) ==
    IF levelCurrent > levelPrev
    THEN BitOr(levelPrev, SC_FOLDLEVELHEADERFLAG)
    ELSE levelPrev

\* a variant that stores the level of every line it ends, changed or not
FoldBodyAlwaysSets(d, st, lv, f) ==
    LET ch == SafeGetCharAt(d, f.i, " ")
        levelCurrent == f.levelCurrent + FoldDelta(ch, f.chPrev, StyleAt(st, f.i))
        atEnd == ch = LF \/ f.i = f.endPos - 1
        lev == FoldLineLevel(f.levelPrev, levelCurrent)
    IN <<[f EXCEPT
            !.i = f.i + 1,
            !.chPrev = ch,
            !.levelCurrent = levelCurrent,
            !.currentLine = IF atEnd THEN f.currentLine + 1 ELSE @,
            !.levelPrev = IF atEnd THEN levelCurrent ELSE @,
            !.written = IF atEnd THEN @ \cup {f.currentLine} ELSE @],
         IF atEnd THEN SetLevel(lv, f.currentLine, lev) ELSE lv>>

\* one iteration: <<the fold state, the levels>> after it; written is the
\* history of the lines SetLevel was called for
FoldBody(d, st, lv, f) ==
    LET ch == SafeGetCharAt(d, f.i, " ")
        levelCurrent == f.levelCurrent + FoldDelta(ch, f.chPrev, StyleAt(st, f.i))
        atEnd == ch = LF \/ f.i = f.endPos - 1
        lev == FoldLineLevel(f.levelPrev, levelCurrent)
        sets == atEnd /\ lev /= LevelAt(lv, f.currentLine)
    IN <<[f EXCEPT
            !.i = f.i + 1,
            !.chPrev = ch,
            !.levelCurrent = levelCurrent,
            !.currentLine = IF atEnd THEN f.currentLine + 1 ELSE @,
            !.levelPrev = IF atEnd THEN levelCurrent ELSE @,
            !.written = IF sets THEN @ \cup {f.currentLine} ELSE @],
         IF sets THEN SetLevel(lv, f.currentLine, lev) ELSE lv>>

(***************************************************************************)
(* The state machine.  The host (the editor) owns the buffer; it calls     *)
(* the lexer for a span, then the folder, and edits the buffer in between. *)
(*   pc         "idle", "scan" (inside ColouriseAhkDoc's loop) or "fold"   *)
(*   sc, fd     the scan context and the fold loop's state                 *)
(*   endStyled  the position up to which the host holds the styles valid   *)
(*   req        the last call: its arguments, what it started from and the *)
(*              state its loop ended in                                    *)
(*   prev       the results of the completed full lex-and-fold runs        *)
(*   runs       the full scans since the last edit; edits, the edits       *)
(***************************************************************************)
\* bounds of the model
MaxRuns == 2

MaxEdits == 1

SeqsUpTo(S, n) == UNION {[1..k -> S] : k \in 0..n}

Uniform(n, v) == [i \in 1..n |-> v]

NoScan == StyleContext(<<>>, <<>>, 0, 0, SCE_AHK_DEFAULT)

NoFold == FoldAhkDocEnter(<<>>, <<>>, 0, 0)

NoReq == [op |-> "none"]

\* the state after construction: nothing styled, every line at level lv
InitWith(d, tb, st, lv) ==
    /\ doc = d
    /\ tables = tb
    /\ styles = Uniform(Len(d), st)
    /\ levels = Uniform(LinesTotal(d), lv)
    /\ endStyled = 0
    /\ pc = "idle"
    /\ sc = NoScan
    /\ fd = NoFold
    /\ req = NoReq
    /\ prev = <<>>
    /\ runs = 0
    /\ edits = 0

\* the host calls ColouriseAhkDoc(startPos, length, initStyle, ...)
Lex(kind, startPos, length, initStyle) ==
    /\ pc = "idle"
    /\ sc' = ColouriseAhkDocEnter(doc, styles, startPos, length, initStyle)
    /\ pc' = "scan"
    /\ req' = [op |-> "lex", kind |-> kind, startPos |-> startPos,
               length |-> length, initStyle |-> initStyle,
               actualStart |-> sc'.currentPos, initState |-> sc'.state,
               loopState |-> "none",
               walkSteps |-> Restart(doc, styles, startPos, initStyle).steps,
               before |-> styles, levelsBefore |-> levels]
    /\ UNCHANGED <<doc, tables, styles, levels, endStyled, fd, prev, edits>>

\* a full scan: from offset 0, the whole document, from Default
LexFull ==
    /\ req.op /= "lex"
    /\ runs < MaxRuns
    /\ runs' = runs + 1
    /\ Lex("full", 0, Len(doc), SCE_AHK_DEFAULT)

\* a scan of the first length characters, from Default
LexSpan ==
    /\ req.op /= "lex"
    /\ runs < MaxRuns
    /\ runs' = runs + 1
    /\ \E length \in 0..Len(doc) : Lex("span", 0, length, SCE_AHK_DEFAULT)

\* after a full scan: a scan of any span, started with any style
LexAny ==
    /\ req.op = "lex"
    /\ req.kind = "full"
    /\ \E startPos \in 0..Len(doc) :
        \E length \in 0..(Len(doc) - startPos + 1) :
            \E initStyle \in AllStyles :
                Lex("any", startPos, length, initStyle)
    /\ UNCHANGED runs

\* after a scan of a leading span: the scan of the rest of the document,
\* started with the style of the last character of that span
LexNext ==
    /\ req.op = "lex"
    /\ req.kind = "span"
    /\ Lex("next", endStyled, Len(doc) - endStyled,
           IF endStyled > 0 THEN StyleAt(styles, endStyled - 1)
           ELSE SCE_AHK_DEFAULT)
    /\ UNCHANGED runs

\* the host restyles from the start of the line that holds endStyled, with
\* the style of the character before it
LexLine ==
    /\ endStyled < Len(doc)
    /\ LET p == LineStart(doc, GetLine(doc, endStyled))
       IN Lex("line", p, Len(doc) - p,
              IF p > 0 THEN StyleAt(styles, p - 1) ELSE SCE_AHK_DEFAULT)
    /\ UNCHANGED runs

\* one iteration of the scan loop
ScanStep ==
    /\ pc = "scan"
    /\ More(sc)
    /\ sc' = LoopBody(doc, tables, sc)
    /\ UNCHANGED <<doc, tables, styles, levels, endStyled, pc, fd, req, prev,
                   runs, edits>>

\* the loop is over: the last word, Complete(), the styles reach the document
ScanEnd ==
    /\ pc = "scan"
    /\ ~More(sc)
    /\ sc' = Finish(tables, sc)
    /\ styles' = sc'.out
    /\ endStyled' = req.startPos + req.length
    /\ pc' = "idle"
    /\ req' = [req EXCEPT !.loopState = sc.state]
    /\ UNCHANGED <<doc, tables, levels, fd, prev, runs, edits>>

\* the host calls FoldAhkDoc(startPos, length, ...) after a scan
Fold(kind, startPos, length) ==
    /\ pc = "idle"
    /\ req.op = "lex"
    /\ fd' = FoldAhkDocEnter(doc, levels, startPos, length)
    /\ pc' = "fold"
    /\ req' = [op |-> "fold", kind |-> kind, startPos |-> startPos,
               length |-> length, afterFull |-> req.kind = "full",
               levelsBefore |-> levels]
    /\ UNCHANGED <<doc, tables, styles, levels, endStyled, sc, prev, runs,
                   edits>>

FoldFull == Fold("full", 0, Len(doc))

FoldAny ==
    \E startPos \in 0..Len(doc) :
        \E length \in 0..(Len(doc) - startPos) :
            Fold("any", startPos, length)

\* the host calls FoldAhkDoc once more for the range it has just folded
FoldAgain ==
    /\ pc = "idle"
    /\ req.op = "fold"
    /\ req.kind /= "again"
    /\ fd' = FoldAhkDocEnter(doc, levels, req.startPos, req.length)
    /\ pc' = "fold"
    /\ req' = [req EXCEPT !.kind = "again", !.levelsBefore = levels]
    /\ UNCHANGED <<doc, tables, styles, levels, endStyled, sc, prev, runs,
                   edits>>

\* FoldStep, were the fold loop to colour the character it reads
FoldStepColouring ==
    /\ pc = "fold"
    /\ fd.i < fd.endPos
    /\ LET r == FoldBody(doc, styles, levels, fd)
       IN fd' = r[1] /\ levels' = r[2]
    /\ styles' = [styles EXCEPT ![fd.i + 1] = SCE_AHK_FOLD]
    /\ UNCHANGED <<doc, tables, endStyled, pc, sc, req, prev, runs, edits>>

\* one iteration of the fold loop
FoldStep ==
    /\ pc = "fold"
    /\ fd.i < fd.endPos
    /\ LET r == FoldBody(doc, styles, levels, fd)
       IN fd' = r[1] /\ levels' = r[2]
    /\ UNCHANGED <<doc, tables, styles, endStyled, pc, sc, req, prev, runs,
                   edits>>

\* the fold loop is over; a full fold after a full scan ends a run
FoldEnd ==
    /\ pc = "fold"
    /\ fd.i >= fd.endPos
    /\ pc' = "idle"
    /\ prev' = IF req.kind = "full" /\ req.afterFull
               THEN Append(prev, <<styles, levels>>) ELSE prev
    /\ UNCHANGED <<doc, tables, styles, levels, endStyled, sc, fd, req, runs,
                   edits>>

\* the buffer after an edit: a new character has style 0, a new line the
\* level of the line it splits; styles are valid up to the edit only
Edited(d, st, lv, e) ==
    /\ doc' = d
    /\ styles' = st
    /\ levels' = lv
    /\ endStyled' = IF e < endStyled THEN e ELSE endStyled
    /\ edits' = edits + 1
    /\ sc' = NoScan
    /\ fd' = NoFold
    /\ req' = NoReq
    /\ prev' = <<>>
    /\ runs' = 0
    /\ UNCHANGED <<tables, pc>>

InsertAt(q, e, v) == SubSeq(q, 1, e) \o <<v>> \o SubSeq(q, e + 1, Len(q))

RemoveAt(q, e) == SubSeq(q, 1, e) \o SubSeq(q, e + 2, Len(q))

\* the user types one character of S into a styled document
InsertChar(S) ==
    /\ pc = "idle"
    /\ req.op = "lex"
    /\ edits < MaxEdits
    /\ \E e \in 0..Len(doc) :
        \E c \in S :
            LET line == GetLine(doc, e)
            IN Edited(InsertAt(doc, e, c),
                      InsertAt(styles, e, SCE_AHK_DEFAULT),
                      IF c = LF
                      THEN InsertAt(levels, line, LevelAt(levels, line))
                      ELSE levels,
                      e)

\* the user deletes one character of a styled document
DeleteChar ==
    /\ pc = "idle"
    /\ req.op = "lex"
    /\ edits < MaxEdits
    /\ \E e \in 0..(Len(doc) - 1) :
        Edited(RemoveAt(doc, e), RemoveAt(styles, e),
               IF doc[e + 1] = LF
               THEN RemoveAt(levels, GetLine(doc, e) + 1)
               ELSE levels,
               e)

(***************************************************************************)
(* Keyword tables (the host's configuration)                               *)
(***************************************************************************)
NoTables == [k \in 1..8 |-> {}]

\* if | - | - | {enter} | #include | #region | - | -
SampleTables ==
    [k \in 1..8 |->
        CASE k = 1 -> {<<"i", "f">>}
          [] k = 4 -> {<<"{", "e", "n", "t", "e", "r", "}">>}
          [] k = 5 -> {<<"#", "i", "n", "c", "l", "u", "d", "e">>}
          [] k = 6 -> {<<"#", "r", "e", "g", "i", "o", "n">>}
          [] OTHER -> {}]

(***************************************************************************)
(* Incremental restyling: a full scan, one edit, the host's rescan from    *)
(* the start of the edited line                                            *)
(***************************************************************************)
MaxLenInc == 6

SigmaInc == {"a", DQuote, BackTick, LF}

InitInc ==
    \E d \in SeqsUpTo(SigmaInc, MaxLenInc) :
        InitWith(d, NoTables, SCE_AHK_DEFAULT, SC_FOLDLEVELBASE)

NextInc ==
    \/ LexLine
    \/ ScanStep
    \/ ScanEnd
    \/ InsertChar(SigmaInc)
    \/ DeleteChar

SpecInc == InitInc /\ [][NextInc]_vars

\* the styles a full scan from offset 0 gives a document
FullStyles(d, tb) ==
    ColouriseAhkDoc(d, tb, Uniform(Len(d), SCE_AHK_DEFAULT), 0, Len(d),
                    SCE_AHK_DEFAULT)

\* the context of a full scan from offset 0 when it has reached pos
RECURSIVE ScanTo(_, _, _, _)
ScanTo(d, tb, s, pos) ==
    IF s.currentPos < pos /\ More(s) THEN ScanTo(d, tb, LoopBody(d, tb, s), pos)
    ELSE s

FullScanAt(d, tb, pos) ==
    ScanTo(d, tb,
           ColouriseAhkDocEnter(d, Uniform(Len(d), SCE_AHK_DEFAULT), 0, Len(d),
                                SCE_AHK_DEFAULT), pos)

\* a scan call has returned
LexDone == pc = "idle" /\ req.op = "lex"

\* C1: after a rescan at a line start with the style recorded before it,
\* every position from the actual start on has the style of a full rescan
C1_IncrementalEquivalence ==
    LexDone =>
        \A i \in req.actualStart..(Len(doc) - 1) :
            StyleAt(styles, i) = StyleAt(FullStyles(doc, tables), i)

\* the resolver of the specification: back while the line's first
\* character is not styled Default
RECURSIVE WalkByLineStyle(_, _, _)
WalkByLineStyle(d, st, line) ==
    IF line > 0 /\ StyleAt(st, LineStart(d, line)) /= SCE_AHK_DEFAULT
    THEN WalkByLineStyle(d, st, line - 1)
    ELSE line

\* C4: with a start style other than Default (the requested line itself
\* styled other than Default), the actual start is the start of the first
\* line back whose first character is styled Default, or offset 0, and the
\* scan starts in Default
C4_RestartWalk ==
    (/\ req.op = "lex"
     /\ req.initStyle /= SCE_AHK_DEFAULT
     /\ StyleAt(req.before, req.startPos) /= SCE_AHK_DEFAULT)
    => /\ req.actualStart =
            LineStart(doc, WalkByLineStyle(doc, req.before,
                                           GetLine(doc, req.startPos)))
       /\ req.initState = SCE_AHK_DEFAULT

\* C6: a scan that starts inside a string holds the string indicator of the
\* quote that opened the string, the one a full scan holds at that offset
C6_QuoteKindRecovery ==
    (/\ pc = "scan"
     /\ sc.currentPos = req.actualStart
     /\ req.initState = SCE_AHK_STRING)
    => LET full == FullScanAt(doc, tables, req.actualStart)
       IN full.state = SCE_AHK_STRING => sc.si = full.si

(***************************************************************************)
(* Continuation lines: the same host, documents with the marker            *)
(***************************************************************************)
MaxLenCont == 4

SigmaCont == {"a", "_", " ", LF}

InitCont ==
    \E d \in SeqsUpTo(SigmaCont, MaxLenCont) :
        InitWith(d, NoTables, SCE_AHK_DEFAULT, SC_FOLDLEVELBASE)

NextCont ==
    \/ LexLine
    \/ ScanStep
    \/ ScanEnd
    \/ InsertChar(SigmaCont)
    \/ DeleteChar

SpecCont == InitCont /\ [][NextCont]_vars

\* the last character of the line that is neither white space nor styled
\* as a line comment is the underscore
EndsWithMarker(d, st, line) ==
    LET first == LineStart(d, line)
        last == LineStart(d, line + 1) - 1
        sig == {i \in first..last :
                    /\ ~isspacechar(SafeGetCharAt(d, i, " "))
                    /\ StyleAt(st, i) /= SCE_AHK_COMMENT}
    IN /\ sig /= {}
       /\ SafeGetCharAt(d, CHOOSE i \in sig : \A j \in sig : j <= i, " ") = "_"

\* the first line of the continuation chain that ends just before line
RECURSIVE ChainStart(_, _, _)
ChainStart(d, st, line) ==
    IF line > 0 /\ EndsWithMarker(d, st, line - 1)
    THEN ChainStart(d, st, line - 1)
    ELSE line

\* C3: a rescan requested in the line after a line that ends with the
\* continuation marker starts at the first line of the continuation chain
C3_ContinuationRestart ==
    (/\ req.op = "lex"
     /\ GetLine(doc, req.startPos) > 0
     /\ EndsWithMarker(doc, req.before, GetLine(doc, req.startPos) - 1))
    => req.actualStart =
           LineStart(doc, ChainStart(doc, req.before,
                                     GetLine(doc, req.startPos)))

(***************************************************************************)
(* Full rescans: scan the whole document, fold it, and again; an edit in   *)
(* between leaves stale styles and levels behind                           *)
(***************************************************************************)
MaxLenFull == 2

SigmaFull == {"{", "}", "/", "*", LF}

InitFull ==
    \E d \in SeqsUpTo(SigmaFull, MaxLenFull) :
        InitWith(d, NoTables, SCE_AHK_DEFAULT, SC_FOLDLEVELBASE)

NextFull ==
    \/ LexFull
    \/ ScanStep
    \/ ScanEnd
    \/ FoldFull
    \/ FoldStep
    \/ FoldEnd
    \/ InsertChar(SigmaFull)
    \/ DeleteChar

SpecFull == InitFull /\ [][NextFull]_vars

\* C2: every full scan-and-fold run of an unchanged document ends with the
\* styles of a scan that starts from a blank style array, whatever styles
\* were recorded before it, and with the styles and fold levels of the
\* first run
C2_FullRescanIdempotent ==
    \A k \in 1..Len(prev) :
        /\ prev[k][1] = FullStyles(doc, tables)
        /\ prev[k] = prev[1]

\* two runs done on an edited document that has a fold header and a line
\* below it, the first run over stale styles
C2_Witness ==
    /\ Len(prev) = 2
    /\ edits = 1
    /\ Len(levels) >= 2
    /\ levels[1] = BitOr(SC_FOLDLEVELBASE, SC_FOLDLEVELHEADERFLAG)
    /\ levels[2] = SC_FOLDLEVELBASE + 1
    /\ \E i \in 1..Len(styles) : styles[i] /= SCE_AHK_DEFAULT

(***************************************************************************)
(* Strings: full scans of documents of quotes, escapes and line ends       *)
(***************************************************************************)
MaxLenStr == 4

SigmaStr == {DQuote, SQuote, BackTick, LF, "a"}

\* "it's"
ItsDoc == <<DQuote, "i", "t", SQuote, "s", DQuote>>

InitStr ==
    \E d \in SeqsUpTo(SigmaStr, MaxLenStr) \cup {ItsDoc} :
        InitWith(d, NoTables, SCE_AHK_DEFAULT, SC_FOLDLEVELBASE)

NextStr ==
    \/ LexFull
    \/ ScanStep
    \/ ScanEnd

SpecStr == InitStr /\ [][NextStr]_vars

\* the first unescaped occurrence of the quote q at or after offset i, the
\* document's length when there is none
RECURSIVE StringEnd(_, _, _)
StringEnd(d, q, i) ==
    IF i >= Len(d) THEN Len(d)
    ELSE IF d[i + 1] = BackTick THEN StringEnd(d, q, i + 2)
    ELSE IF d[i + 1] = q THEN i
    ELSE StringEnd(d, q, i + 1)

\* the offsets in i..c-1 of the escape characters and of what they escape
RECURSIVE EscapePairs(_, _, _)
EscapePairs(d, i, c) ==
    IF i >= c \/ i >= Len(d) THEN {}
    ELSE IF d[i + 1] = BackTick THEN {i, i + 1} \cup EscapePairs(d, i + 2, c)
    ELSE EscapePairs(d, i + 1, c)

\* C5: a string opened from Default by a quote runs to the first later
\* unescaped occurrence of the same quote (or to the end of the document):
\* the opening quote, the closing quote and everything between them that is
\* not part of an escape pair, the other quote and line ends included, is
\* styled String, and the character after the closing quote belongs to a
\* string only if it opens one from Default
C5_QuoteMatching ==
    LexDone =>
        \A p \in 0..(Len(doc) - 1) :
            sc.starts[p] = SCE_AHK_STRING =>
                LET c == StringEnd(doc, doc[p + 1], p + 1)
                    last == IF c < Len(doc) THEN c ELSE Len(doc) - 1
                    pairs == EscapePairs(doc, p + 1, c)
                IN /\ \A i \in p..last :
                        IF i \in pairs
                        THEN StyleAt(styles, i) \in
                                 {SCE_AHK_STRING, SCE_AHK_ASSIGNMENT}
                        ELSE StyleAt(styles, i) = SCE_AHK_STRING
                   /\ c + 1 < Len(doc) =>
                        (StyleAt(styles, c + 1) \in
                             {SCE_AHK_STRING, SCE_AHK_ASSIGNMENT}
                         => sc.starts[c + 1] = StyleAt(styles, c + 1))

\* "it's" scanned: the string opened at offset 0, all six characters String
C5_Witness ==
    /\ LexDone
    /\ doc = ItsDoc
    /\ sc.starts[0] = SCE_AHK_STRING
    /\ \A i \in 0..5 : StyleAt(styles, i) = SCE_AHK_STRING

(***************************************************************************)
(* Folding: a full scan, then the fold pass over any range of the          *)
(* document, from fold levels that an earlier pass may have left           *)
(***************************************************************************)
MaxLenFold == 3

SigmaFold == {"{", "}", "/", "*", LF}

\* a() {
\*   b()
\* }
FoldSample ==
    <<"a", "(", ")", " ", "{", LF, " ", " ", "b", "(", ")", LF, "}", LF>>

\* the levels a line may hold before the pass: base, one deeper, base with
\* the header flag
SeedLevels ==
    {SC_FOLDLEVELBASE, SC_FOLDLEVELBASE + 1,
     BitOr(SC_FOLDLEVELBASE, SC_FOLDLEVELHEADERFLAG)}

InitFold ==
    \E d \in SeqsUpTo(SigmaFold, MaxLenFold) \cup {FoldSample} :
        \E lv \in SeedLevels :
            InitWith(d, NoTables, SCE_AHK_DEFAULT, lv)

NextFold ==
    \/ LexFull
    \/ ScanStep
    \/ ScanEnd
    \/ FoldAny
    \/ FoldStep
    \/ FoldEnd

SpecFold == InitFold /\ [][NextFold]_vars

\* a fold call has returned
FoldDone == pc = "idle" /\ req.op = "fold"

\* the seed of the last fold call: the level number of the line it began in
FoldSeed ==
    BitAnd(LevelAt(req.levelsBefore, GetLine(doc, req.startPos)),
           SC_FOLDLEVELNUMBERMASK)

\* the level number and the header flag of a stored value
LevelNumber(v) == BitAnd(v, SC_FOLDLEVELNUMBERMASK)

IsHeader(v) == BitAnd(v, SC_FOLDLEVELHEADERFLAG) /= 0

\* scanned and folded from offset 0: the document of the example
SampleFolded ==
    /\ FoldDone
    /\ doc = FoldSample
    /\ req.afterFull
    /\ req.startPos = 0
    /\ req.length = Len(doc)

\* C7 as stated: line 1 at L with the header flag, line 2 at L + 1 without,
\* line 3 (the closing brace) at L without
C7_FoldBalanceAsStated ==
    SampleFolded =>
        /\ LevelNumber(levels[1]) = FoldSeed /\ IsHeader(levels[1])
        /\ LevelNumber(levels[2]) = FoldSeed + 1 /\ ~IsHeader(levels[2])
        /\ LevelNumber(levels[3]) = FoldSeed /\ ~IsHeader(levels[3])

\* C7: line 1 at L with the header flag, line 2 at L + 1 without, line 3
\* (the closing brace) at L + 1 without: the brace lowers the level of the
\* line after it
C7_FoldBalance ==
    SampleFolded =>
        /\ LevelNumber(levels[1]) = FoldSeed /\ IsHeader(levels[1])
        /\ LevelNumber(levels[2]) = FoldSeed + 1 /\ ~IsHeader(levels[2])
        /\ LevelNumber(levels[3]) = FoldSeed + 1 /\ ~IsHeader(levels[3])

\* the example folded from the base level, its brackets styled Fold
C7_Witness ==
    /\ SampleFolded
    /\ FoldSeed = SC_FOLDLEVELBASE
    /\ StyleAt(styles, 4) = SCE_AHK_FOLD
    /\ StyleAt(styles, 12) = SCE_AHK_FOLD
    /\ levels[3] = SC_FOLDLEVELBASE + 1

\* the change of the running level at offset i of a pass that began at from
RunDelta(d, st, from, i) ==
    LET ch == d[i + 1]
        before == IF i > from THEN d[i] ELSE NUL
        style == StyleAt(st, i)
    IN CASE style = SCE_AHK_FOLD /\ ch \in {"{", "(", "["} -> 1
         [] style = SCE_AHK_FOLD /\ ch \in {"}", ")", "]"} -> -1
         [] style = SCE_AHK_COMMENTBLOCK /\ ch = "*" /\ before = "/" -> 1
         [] style = SCE_AHK_COMMENTBLOCK /\ ch = "/" /\ before = "*" -> -1
         [] OTHER -> 0

\* the sum of the changes at the offsets from..upTo-1
RECURSIVE RunSum(_, _, _, _)
RunSum(d, st, from, upTo) ==
    IF upTo <= from THEN 0
    ELSE RunSum(d, st, from, upTo - 1) + RunDelta(d, st, from, upTo - 1)

\* the lines whose end (line feed or last offset of the range) the last fold
\* call passed
FoldedLines ==
    IF req.length > 0
    THEN GetLine(doc, req.startPos)..GetLine(doc, req.startPos + req.length - 1)
    ELSE {}

KeyBodies ==
    {<<"{", "E", "n", "t", "e", "r", "}">>,
     <<"{", "E", "n", "t", "e", "r", " ", "x", "y", "z", "}">>,
     <<"{", "E", "n", "t", "e", "r", " ", "5", "}">>,
     <<"{", "E", "n", "t", "e", "r", " ", "d", "o", "w", "n", "}">>,
     <<"{", "T", "a", "b", "}">>,
     <<"{", "a", "}">>,
     <<"a", "{", "E", "n", "t", "e", "r", "}", "b">>}

InitKey ==
    \E q \in {DQuote, SQuote} :
        \E body \in KeyBodies :
            \E tb \in {SampleTables, NoTables} :
                InitWith(<<q>> \o body \o <<q>>, tb, SCE_AHK_DEFAULT,
                         SC_FOLDLEVELBASE)

NextKey ==
    \/ LexFull
    \/ ScanStep
    \/ ScanEnd

SpecKey == InitKey /\ [][NextKey]_vars

\* offsets p..q hold one bracketed text inside the string opened at offset 0
BracketedInString(p, q) ==
    /\ p < q
    /\ doc[p + 1] = "{"
    /\ doc[q + 1] = "}"
    /\ \A i \in (p + 1)..(q - 1) : doc[i + 1] \notin {"{", "}"}
    /\ sc.starts[0] = SCE_AHK_STRING
    /\ StringEnd(doc, doc[1], 1) > q

\* C9: in a string, a bracketed key name of the table of sent keys, without
\* a modifier, is styled as a sent key on every character, and a bracketed
\* text whose modifier is not valid is styled String on every character
C9_SpecialKeyValidation ==
    LexDone =>
        \A p, q \in 0..(Len(doc) - 1) :
            BracketedInString(p, q) =>
                LET text == Lowered(SubSeq(doc, p + 1, q + 1))
                IN /\ text \in tables[4] =>
                        \A i \in p..q : StyleAt(styles, i) = SCE_AHK_KEYWORD4
                   /\ GetSendKey(text)[1] = 1 =>
                        \A i \in p..q : StyleAt(styles, i) = SCE_AHK_STRING

(***************************************************************************)
(* Numbers: full scans of documents of digits, hex marks and letters       *)
(***************************************************************************)
MaxLenHex == 4

SigmaHex == {"0", "1", "x", "X", "e", "A", ".", " "}

\* 0x1A2B
HexSample == <<"0", "x", "1", "A", "2", "B">>

InitHex ==
    \E d \in SeqsUpTo(SigmaHex, MaxLenHex) \cup {HexSample} :
        InitWith(d, NoTables, SCE_AHK_DEFAULT, SC_FOLDLEVELBASE)

NextHex ==
    \/ LexFull
    \/ ScanStep
    \/ ScanEnd

SpecHex == InitHex /\ [][NextHex]_vars

\* 0-9a-fA-F
HexDigitChars ==
    DigitChars \cup {"a", "b", "c", "d", "e", "f", "A", "B", "C", "D", "E", "F"}

\* the offset after the run of hex digits that begins at offset i
RECURSIVE HexRunEnd(_, _)
HexRunEnd(d, i) ==
    IF i < Len(d) /\ d[i + 1] \in HexDigitChars THEN HexRunEnd(d, i + 1)
    ELSE i

\* C10: a Number token opened from Default at a '0' that is followed by 'x'
\* or 'X' and one or more hex digits, the character after them (if any)
\* not a '.', is styled Number on every character
C10_HexLiteral ==
    LexDone =>
        \A p \in 0..(Len(doc) - 3) :
            LET e == HexRunEnd(doc, p + 2)
            IN (/\ sc.starts[p] = SCE_AHK_NUMBER
                /\ doc[p + 1] = "0"
                /\ doc[p + 2] \in {"x", "X"}
                /\ e > p + 2
                /\ SafeGetCharAt(doc, e, NUL) /= ".")
               => \A i \in p..(e - 1) : StyleAt(styles, i) = SCE_AHK_NUMBER

\* 0x1A2B scanned: the number opened at offset 0, all six characters Number
C10_Witness ==
    /\ LexDone
    /\ doc = HexSample
    /\ sc.starts[0] = SCE_AHK_NUMBER
    /\ \A i \in 0..5 : StyleAt(styles, i) = SCE_AHK_NUMBER

(***************************************************************************)
(* Decimal numbers: full scans of documents of digits, points, an exponent *)
(* mark, a letter and a blank                                              *)
(***************************************************************************)
MaxLenNum == 6

SigmaNum == {"1", ".", "e", "a", " "}

InitNum ==
    \E d \in SeqsUpTo(SigmaNum, MaxLenNum) :
        InitWith(d, NoTables, SCE_AHK_DEFAULT, SC_FOLDLEVELBASE)

NextNum ==
    \/ LexFull
    \/ ScanStep
    \/ ScanEnd

SpecNum == InitNum /\ [][NextNum]_vars

\* the offset after the run of digits and points that begins at offset i
RECURSIVE NumRunEnd(_, _)
NumRunEnd(d, i) ==
    IF i < Len(d) /\ d[i + 1] \in DigitChars \cup {"."}
    THEN NumRunEnd(d, i + 1)
    ELSE i

\* the offsets of the points in p..e-1
PointsIn(d, p, e) == {i \in p..(e - 1) : d[i + 1] = "."}

\* C11: in a Number token opened from Default that runs over digits and
\* points, no character from the second point to the end of the run is
\* styled Number once the scan has returned
C11_TwoDecimalPoints ==
    LexDone =>
        \A p \in 0..(Len(doc) - 1) :
            sc.starts[p] = SCE_AHK_NUMBER =>
                LET e == NumRunEnd(doc, p)
                    points == PointsIn(doc, p, e)
                IN Cardinality(points) >= 2 =>
                    LET first == CHOOSE i \in points : \A j \in points : i <= j
                        second == CHOOSE i \in points \ {first} :
                                      \A j \in points \ {first} : i <= j
                    IN \A i \in second..(e - 1) :
                           StyleAt(styles, i) /= SCE_AHK_NUMBER

(***************************************************************************)
(* Keywords: full scans of documents of words, operators and blanks, with  *)
(* the word a in any of the eight tables                                   *)
(***************************************************************************)
MaxLenKw == 3

SigmaKw == {"a", "+", " "}

\* the tables that hold the word a or nothing
WordTables == [1..8 -> SUBSET {<<"a">>}]

InitKw ==
    \E d \in SeqsUpTo(SigmaKw, MaxLenKw) :
        \E tb \in WordTables :
            InitWith(d, tb, SCE_AHK_DEFAULT, SC_FOLDLEVELBASE)

NextKw ==
    \/ LexFull
    \/ ScanStep
    \/ ScanEnd

SpecKw == InitKw /\ [][NextKw]_vars

\* the style of keyword category k
CategoryStyle(k) ==
    CASE k = 1 -> SCE_AHK_KEYWORD
      [] k = 2 -> SCE_AHK_KEYWORD2
      [] k = 3 -> SCE_AHK_KEYWORD3
      [] k = 4 -> SCE_AHK_KEYWORD4
      [] k = 5 -> SCE_AHK_KEYWORD5
      [] k = 6 -> SCE_AHK_KEYWORD6
      [] k = 7 -> SCE_AHK_KEYWORD7
      [] k = 8 -> SCE_AHK_KEYWORD8

\* the offset after the run of identifier characters that begins at offset i
RECURSIVE WordRunEnd(_, _)
WordRunEnd(d, i) ==
    IF i < Len(d) /\ IsAWordChar(d[i + 1]) THEN WordRunEnd(d, i + 1) ELSE i

\* the categories whose table holds the word
CategoriesOf(tb, w) == {k \in 1..8 : w \in tb[k]}

\* C12: a Keyword token opened from Default that some table holds is styled,
\* on every character, as the first category from 1 to 8 whose table holds
\* its lower-cased text, whatever character follows it
C12_KeywordPriority ==
    LexDone =>
        \A p \in 0..(Len(doc) - 1) :
            sc.starts[p] = SCE_AHK_KEYWORD =>
                LET e == WordRunEnd(doc, p)
                    cats == CategoriesOf(tables, Lowered(SubSeq(doc, p + 1, e)))
                IN cats /= {} =>
                    LET k == CHOOSE c \in cats : \A c2 \in cats : c <= c2
                    IN \A i \in p..(e - 1) :
                           StyleAt(styles, i) = CategoryStyle(k)

(***************************************************************************)
(* Spans: scans of the first characters of a document, with the word a,    *)
(* or nothing, in each of the eight tables                                 *)
(***************************************************************************)
MaxLenSpan == 3

SigmaSpan == {"a", "_", "$", " "}

InitSpan ==
    \E d \in SeqsUpTo(SigmaSpan, MaxLenSpan) :
        \E tb \in WordTables :
            InitWith(d, tb, SCE_AHK_DEFAULT, SC_FOLDLEVELBASE)

NextSpan ==
    \/ LexSpan
    \/ ScanStep
    \/ ScanEnd

SpecSpan == InitSpan /\ [][NextSpan]_vars

\* the offset at which the last token of the scan was opened from Default
LastOpened ==
    LET opened == {p \in DOMAIN sc.starts : sc.starts[p] /= "none"}
    IN CHOOSE p \in opened : \A q \in opened : q <= p

\* the span of the last call with one blank after it, as a document
SpanThenBlank == SubSeq(doc, 1, req.startPos + req.length) \o <<" ">>

\* C13: when the loop of a scan ends in the Keyword state, the last token
\* has on every character the style that a scan of the same span followed
\* by a blank gives it
C13_EndOfSpanFinalization ==
    (LexDone /\ req.loopState = SCE_AHK_KEYWORD) =>
        \A i \in LastOpened..(req.startPos + req.length - 1) :
            StyleAt(styles, i) = StyleAt(FullStyles(SpanThenBlank, tables), i)

(***************************************************************************)
(* Chained scans: a scan of a leading span, then a scan of the rest that   *)
(* starts with the style of the span's last character                      *)
(***************************************************************************)
MaxLenChain == 3

SigmaChain == {"0", "x", "A", " "}

InitChain ==
    \E d \in SeqsUpTo(SigmaChain, MaxLenChain) :
        InitWith(d, NoTables, SCE_AHK_DEFAULT, SC_FOLDLEVELBASE)

NextChain ==
    \/ LexSpan
    \/ LexNext
    \/ ScanStep
    \/ ScanEnd

SpecChain == InitChain /\ [][NextChain]_vars

\* C14: after the scan of a leading span and the scan of the rest, started
\* with the style of the span's last character, every position of the rest
\* has the style that one scan of the whole document gives it
C14_ChainedScans ==
    (LexDone /\ req.kind = "next") =>
        \A i \in req.startPos..(Len(doc) - 1) :
            StyleAt(styles, i) = StyleAt(FullStyles(doc, tables), i)

(***************************************************************************)
(* Any call: a full scan, then a scan of any span with any start style,    *)
(* with the word a in one table or in none                                 *)
(***************************************************************************)
MaxLenAny == 3

SigmaAny == {"a", DQuote, LF}

\* the word a in table c only; in no table for c = 0
SingleTables ==
    {[k \in 1..8 |-> IF k = c THEN {<<"a">>} ELSE {}] : c \in 0..8}

InitAny ==
    \E d \in SeqsUpTo(SigmaAny, MaxLenAny) :
        \E tb \in SingleTables :
            InitWith(d, tb, SCE_AHK_DEFAULT, SC_FOLDLEVELBASE)

NextAny ==
    \/ LexFull
    \/ LexAny
    \/ ScanStep
    \/ ScanEnd

SpecAny == InitAny /\ [][NextAny]_vars

\* the end of the span of the last scan call, clamped to the document
SpanEnd ==
    IF req.startPos + req.length < Len(doc) THEN req.startPos + req.length
    ELSE Len(doc)

\* the most iterations the loop of the last scan call may take: one per
\* character of the span, one more when the span reaches the document's end
MaxSteps ==
    SpanEnd - req.actualStart
    + (IF req.startPos + req.length >= Len(doc) THEN 1 ELSE 0)

\* C15: in every scan call the restart walk takes at most one step per
\* line before the requested start, every loop iteration moves the cursor
\* on, the loop takes at most one iteration per character of the span (one
\* more at the document's end), and the state is always one of the styles
C15_NoAbort ==
    req.op = "lex" =>
        /\ req.walkSteps <= GetLine(doc, req.startPos)
        /\ sc.state \in AllStyles
        /\ sc.currentPos >= req.actualStart + sc.steps
        /\ sc.steps <= MaxSteps
        /\ (pc = "scan" /\ More(sc)) => sc.steps < MaxSteps

\* a call that walked back two lines, ran its loop over the whole document
\* and one more iteration, and returned
C15_Witness ==
    /\ LexDone
    /\ req.kind = "any"
    /\ req.walkSteps = 2
    /\ Len(doc) = 3
    /\ sc.steps = Len(doc) + 1

\* C16: when a scan call has returned, ColourTo has styled every position
\* from the actual start to the end of the span exactly once, and no
\* position before the actual start has been styled or has another style
\* than before the call
C16_Coverage ==
    LexDone =>
        /\ \A i \in req.actualStart..(SpanEnd - 1) :
               /\ sc.writes[i + 1] = 1
               /\ StyleAt(styles, i) \in AllStyles
        /\ \A i \in 0..(req.actualStart - 1) :
               /\ sc.writes[i + 1] = 0
               /\ StyleAt(styles, i) = StyleAt(req.before, i)

\* a call whose start the walk moved back, over a span that ends inside
\* the document, has returned with a String and a Default position
C16_Witness ==
    /\ LexDone
    /\ req.kind = "any"
    /\ req.actualStart < req.startPos
    /\ SpanEnd < Len(doc)
    /\ \E i \in req.actualStart..(SpanEnd - 1) :
           StyleAt(styles, i) = SCE_AHK_STRING
    /\ \E i \in req.actualStart..(SpanEnd - 1) :
           StyleAt(styles, i) = SCE_AHK_DEFAULT

\* the document cut after offset e - 1, with the characters of w after it
CutThen(e, w) == SubSeq(doc, 1, e) \o w

\* C17: a Keyword token opened from Default has on every character the
\* style it has in any document that agrees with this one up to the
\* token's last character: one that ends there, or one that goes on with
\* another character
C17_TokenLocality ==
    LexDone =>
        \A p \in 0..(Len(doc) - 1) :
            sc.starts[p] = SCE_AHK_KEYWORD =>
                LET e == WordRunEnd(doc, p)
                IN \A w \in {<<>>} \cup {<<c>> : c \in SigmaKw \ {"a"}} :
                       \A i \in p..(e - 1) :
                           StyleAt(styles, i) =
                               StyleAt(FullStyles(CutThen(e, w), tables), i)

(***************************************************************************)
(* Open tokens: scans of the first characters of documents of quotes,      *)
(* escapes and comment marks                                               *)
(***************************************************************************)
MaxLenOpen == 4

SigmaOpen == {DQuote, BackTick, "/", "*", "a"}

InitOpen ==
    \E d \in SeqsUpTo(SigmaOpen, MaxLenOpen) :
        InitWith(d, NoTables, SCE_AHK_DEFAULT, SC_FOLDLEVELBASE)

NextOpen ==
    \/ LexSpan
    \/ ScanStep
    \/ ScanEnd

SpecOpen == InitOpen /\ [][NextOpen]_vars

\* a block comment opened at offset p has its closing mark before offset e
CommentClosedBefore(d, p, e) ==
    \E j \in (p + 1)..(e - 2) : d[j + 1] = "*" /\ d[j + 2] = "/"

\* C18: a string opened from Default in the span and not closed before the
\* span's end is styled String (its escape pairs String or Assignment) up
\* to the span's end, and the scan returns in the String state; a block
\* comment opened in the span and not closed before its end is styled
\* BlockComment up to the span's end, and the scan returns in the
\* BlockComment state
C18_UnterminatedToken ==
    LexDone =>
        \A p \in 0..(SpanEnd - 1) :
            /\ (/\ sc.starts[p] = SCE_AHK_STRING
                /\ StringEnd(doc, doc[p + 1], p + 1) >= SpanEnd)
               => /\ \A i \in p..(SpanEnd - 1) :
                       IF i \in EscapePairs(doc, p + 1, SpanEnd)
                       THEN StyleAt(styles, i) \in
                                {SCE_AHK_STRING, SCE_AHK_ASSIGNMENT}
                       ELSE StyleAt(styles, i) = SCE_AHK_STRING
                  /\ sc.state = SCE_AHK_STRING
            /\ (/\ sc.starts[p] = SCE_AHK_COMMENTBLOCK
                /\ ~CommentClosedBefore(doc, p, SpanEnd))
               => /\ \A i \in p..(SpanEnd - 1) :
                       StyleAt(styles, i) = SCE_AHK_COMMENTBLOCK
                  /\ sc.state = SCE_AHK_COMMENTBLOCK

(***************************************************************************)
(* Category 6: full scans of documents of words, semicolons, blanks and    *)
(* line ends, with the word a in table 6 and possibly in tables 7 and 8    *)
(***************************************************************************)
MaxLenSix == 4

SigmaSix == {"a", ";", " ", LF}

SixTables ==
    {tb \in WordTables :
        /\ tb[6] = {<<"a">>}
        /\ \A k \in 1..5 : tb[k] = {}}

InitSix ==
    \E d \in SeqsUpTo(SigmaSix, MaxLenSix) :
        \E tb \in SixTables :
            InitWith(d, tb, SCE_AHK_DEFAULT, SC_FOLDLEVELBASE)

NextSix ==
    \/ LexFull
    \/ ScanStep
    \/ ScanEnd

SpecSix == InitSix /\ [][NextSix]_vars

\* the offset of the first character c at or after offset i on the line of
\* offset i, or the offset of the line's end when there is none
RECURSIVE FirstOnLine(_, _, _)
FirstOnLine(d, c, i) ==
    IF i >= Len(d) \/ d[i + 1] = LF \/ d[i + 1] = c
    THEN i
    ELSE FirstOnLine(d, c, i + 1)

\* C19: a Keyword token opened from Default whose first table is table 6
\* is styled category 6, and so is every character after it up to the first
\* ';' on the line; that ';' and the characters after it up to the line's
\* end are styled LineComment, and the line-end character is styled Default
C19_Category6 ==
    LexDone =>
        \A p \in 0..(Len(doc) - 1) :
            sc.starts[p] = SCE_AHK_KEYWORD =>
                LET e == WordRunEnd(doc, p)
                    cats == CategoriesOf(tables, Lowered(SubSeq(doc, p + 1, e)))
                    semi == FirstOnLine(doc, ";", e)
                    eol == FirstOnLine(doc, LF, e)
                IN (cats /= {} /\ \A c \in cats : c >= 6) =>
                    /\ \A i \in p..(semi - 1) :
                           StyleAt(styles, i) = SCE_AHK_KEYWORD6
                    /\ \A i \in semi..(eol - 1) :
                           StyleAt(styles, i) = SCE_AHK_COMMENT
                    /\ eol < Len(doc) =>
                           StyleAt(styles, eol) = SCE_AHK_DEFAULT

(***************************************************************************)
(* Frame of the two entry points, over the runs of SpecFull: full scans    *)
(* and full folds with edits of the buffer between them                    *)
(***************************************************************************)
\* a step of a scan call: its entry, an iteration of its loop, or its return
InScan == pc = "scan" \/ pc' = "scan"

\* a step of a fold call: its entry, an iteration of its loop, or its return
InFold == pc = "fold" \/ pc' = "fold"

\* C20: no step of a scan call changes a character of the buffer or a fold
\* level, and no step of a fold call changes a character of the buffer or a
\* style
C20_Frame ==
    [][/\ InScan => (doc' = doc /\ levels' = levels)
       /\ InFold => (doc' = doc /\ styles' = styles)]_vars

\* a fold call that changed a level has returned, after a scan that changed
\* a style, in a buffer that an edit changed before
C20_Witness ==
    /\ FoldDone
    /\ edits > 0
    /\ levels /= req.levelsBefore
    /\ \E i \in 1..Len(styles) :
           sc.writes[i] = 1 /\ styles[i] = SCE_AHK_FOLD

(***************************************************************************)
(* Flags: scans of the first characters of documents of quotes, digits,    *)
(* points, words and blanks                                                *)
(***************************************************************************)
MaxLenFlags == 4

SigmaFlags == {SQuote, "1", ".", "a", "#", " "}

InitFlags ==
    \E d \in SeqsUpTo(SigmaFlags, MaxLenFlags) :
        InitWith(d, NoTables, SCE_AHK_DEFAULT, SC_FOLDLEVELBASE)

NextFlags ==
    \/ LexSpan
    \/ ScanStep
    \/ ScanEnd

SpecFlags == InitFlags /\ [][NextFlags]_vars

\* C21: whenever the scan is in the Default state after an iteration of its
\* loop, the string indicator si, the number mode ni, the escape flag ss and
\* the comment flag ci are 0 and FullWord holds no text
C21_FlagsReset ==
    (pc = "scan" /\ sc.steps > 0 /\ sc.state = SCE_AHK_DEFAULT) =>
        /\ sc.si = 0
        /\ sc.ni = 0
        /\ sc.ss = 0
        /\ sc.ci = 0
        /\ sc.FullWord = <<>>

(***************************************************************************)
(* Block comments: scans of the first characters of documents of comment   *)
(* marks, quotes, words and blanks                                         *)
(***************************************************************************)
MaxLenBlock == 5

SigmaBlock == {"/", "*", "a", DQuote, " "}

InitBlock ==
    \E d \in SeqsUpTo(SigmaBlock, MaxLenBlock) :
        InitWith(d, NoTables, SCE_AHK_DEFAULT, SC_FOLDLEVELBASE)

NextBlock ==
    \/ LexSpan
    \/ ScanStep
    \/ ScanEnd

SpecBlock == InitBlock /\ [][NextBlock]_vars

\* the offset of the first '/' after offset i that a '*' precedes, or the
\* document's length when there is none
RECURSIVE CommentEnd(_, _)
CommentEnd(d, i) ==
    IF i + 1 >= Len(d) THEN Len(d)
    ELSE IF d[i + 2] = "/" /\ d[i + 1] = "*" THEN i + 1
    ELSE CommentEnd(d, i + 1)

\* what a character of SigmaBlock at offset i opens when it is read in the
\* Default state: the state of the token, or "none" for a blank
OpensFromDefault(d, i) ==
    LET ch == d[i + 1]
        chNext == IF i + 1 < Len(d) THEN d[i + 2] ELSE NUL
    IN CASE ch = "/" /\ chNext = "*" -> SCE_AHK_COMMENTBLOCK
         [] ch = "/" /\ chNext /= "*" -> SCE_AHK_OPERATOR
         [] ch = "*" -> SCE_AHK_OPERATOR
         [] ch = DQuote -> SCE_AHK_STRING
         [] ch = "a" -> SCE_AHK_KEYWORD
         [] OTHER -> "none"

\* C22: a block comment opened at offset p is styled BlockComment up to and
\* including the first later '/' that a '*' precedes; the character after
\* that '/' is read in the Default state, so it opens the token that it
\* opens from Default
C22_BlockCommentEnd ==
    LexDone =>
        \A p \in 0..(SpanEnd - 1) :
            sc.starts[p] = SCE_AHK_COMMENTBLOCK =>
                LET q == CommentEnd(doc, p)
                IN /\ \A i \in p..(SpanEnd - 1) :
                          i <= q => StyleAt(styles, i) = SCE_AHK_COMMENTBLOCK
                   /\ q + 1 < SpanEnd =>
                          /\ sc.starts[q + 1] = OpensFromDefault(doc, q + 1)
                          /\ StyleAt(styles, q + 1) /= SCE_AHK_COMMENTBLOCK
                                 \/ OpensFromDefault(doc, q + 1)
                                        = SCE_AHK_COMMENTBLOCK

\* a scan has returned that closed a block comment and opened a string at
\* the character after the closing '/'
C22_Witness ==
    /\ LexDone
    /\ \E p \in 0..(SpanEnd - 1) :
        /\ sc.starts[p] = SCE_AHK_COMMENTBLOCK
        /\ CommentEnd(doc, p) > p + 2
        /\ CommentEnd(doc, p) + 1 < SpanEnd
        /\ sc.starts[CommentEnd(doc, p) + 1] = SCE_AHK_STRING


(***************************************************************************)
(* String escapes, over the scans of SpecOpen                              *)
(***************************************************************************)
\* C23: in a string opened from Default, an escape character and the one
\* character after it are styled Assignment, that character neither closes
\* the string nor introduces an escape, and the characters after the pair
\* are read in the String state again: up to the closing quote (the first
\* later quote of the opening kind outside an escape pair) every character
\* outside the pairs is styled String
C23_StringEscapes ==
    LexDone =>
        \A p \in 0..(SpanEnd - 1) :
            sc.starts[p] = SCE_AHK_STRING =>
                LET e == StringEnd(doc, doc[p + 1], p + 1)
                IN \A i \in p..(SpanEnd - 1) :
                       i <= e =>
                           StyleAt(styles, i) =
                               IF i \in EscapePairs(doc, p + 1, e)
                               THEN SCE_AHK_ASSIGNMENT
                               ELSE SCE_AHK_STRING


(***************************************************************************)
(* Number start, over the scans of SpecNum                                 *)
(***************************************************************************)
\* C24: a digit, or a '.' that a digit follows directly, that opens a token
\* from the Default state opens a Number token
C24_NumberStart ==
    LexDone =>
        \A p \in 0..(Len(doc) - 1) :
            (/\ sc.starts[p] /= "none"
             /\ \/ IsADigit(doc[p + 1])
                \/ /\ doc[p + 1] = "."
                   /\ p + 1 < Len(doc)
                   /\ IsADigit(doc[p + 2]))
            => sc.starts[p] = SCE_AHK_NUMBER


(***************************************************************************)
(* Exponents: full scans of documents of digits, points, the hex mark and  *)
(* the exponent letters                                                    *)
(***************************************************************************)
MaxLenExp == 5

SigmaExp == {"0", "1", "x", ".", "e", "E"}

InitExp ==
    \E d \in SeqsUpTo(SigmaExp, MaxLenExp) :
        InitWith(d, NoTables, SCE_AHK_DEFAULT, SC_FOLDLEVELBASE)

NextExp ==
    \/ LexFull
    \/ ScanStep
    \/ ScanEnd

SpecExp == InitExp /\ [][NextExp]_vars

\* the loop is about to read an 'e' or 'E' that directly follows a digit,
\* inside a Number token
ReadsExponentLetter ==
    /\ pc = "scan"
    /\ More(sc)
    /\ sc.state = SCE_AHK_NUMBER
    /\ sc.ch \in {"e", "E"}
    /\ IsADigit(sc.chPrev)

\* the offset after the run of digits that begins at offset i
RECURSIVE DigitRunEnd(_, _)
DigitRunEnd(d, i) ==
    IF i < Len(d) /\ IsADigit(d[i + 1]) THEN DigitRunEnd(d, i + 1) ELSE i

\* the offset after the decimal number with an exponent (digits, a point,
\* digits, an exponent letter, digits, and no point after them) that begins
\* at offset p, or -1 when there is none
DecimalExponentEnd(d, p) ==
    LET a == DigitRunEnd(d, p)
        b == DigitRunEnd(d, a + 1)
        c == DigitRunEnd(d, b + 1)
    IN IF /\ a > p /\ a < Len(d) /\ d[a + 1] = "."
          /\ b > a + 1 /\ b < Len(d) /\ d[b + 1] \in {"e", "E"}
          /\ (c < Len(d) => d[c + 1] /= ".")
       THEN c
       ELSE -1

\* C25 as stated: an 'e' or 'E' after a digit starts the exponent mode in a
\* plain integer only; in the decimal-point mode it ends the Number token
C25_ExponentModeAsStated ==
    [][ReadsExponentLetter =>
          /\ (sc'.ni = 3 /\ sc.ni /= 3) <=> sc.ni = 0
          /\ sc.ni = 1 => sc'.state /= SCE_AHK_NUMBER]_vars

\* C25: an 'e' or 'E' after a digit starts the exponent mode in a plain
\* integer and in the decimal-point mode, and the Number token goes on; in
\* the hex mode it is a hex digit, the mode stays and the token goes on; in
\* the exponent mode and after a second point it ends the Number token; so
\* a decimal number with an exponent that no point follows, opened from
\* Default, is styled Number over all its characters
C25_ExponentMode ==
    /\ [][ReadsExponentLetter =>
             IF sc.ni <= 1
             THEN sc'.state = SCE_AHK_NUMBER /\ sc'.ni = 3
             ELSE IF sc.ni = 2
             THEN sc'.state = SCE_AHK_NUMBER /\ sc'.ni = 2
             ELSE sc'.state /= SCE_AHK_NUMBER /\ sc'.ni = sc.ni]_vars
    /\ [](LexDone =>
             \A p \in 0..(Len(doc) - 1) :
                 (sc.starts[p] = SCE_AHK_NUMBER
                  /\ DecimalExponentEnd(doc, p) /= -1)
                 => \A i \in p..(DecimalExponentEnd(doc, p) - 1) :
                        StyleAt(styles, i) = SCE_AHK_NUMBER)

\* the loop has read an exponent letter in the decimal-point mode and is in
\* the exponent mode, in the same Number token
C25_Witness ==
    /\ pc = "scan"
    /\ sc.state = SCE_AHK_NUMBER
    /\ sc.ni = 3
    /\ sc.chPrev \in {"e", "E"}
    /\ \E i \in (sc.startSeg + 1)..sc.currentPos : doc[i] = "."


(***************************************************************************)
(* Keyword extent: scans of the first characters of short documents of     *)
(* words, type characters, dashes and line ends, and of three documents    *)
(* with a directive, with the word a in table 1 or in no table             *)
(***************************************************************************)
MaxLenExtent == 3

SigmaExtent == {"a", "$", "-", "#", " ", LF}

ExtentSamples ==
    {<<"#", "I", "n", "c", "l", "u", "d", "e", "-", "a", " ">>,
     <<"#", "c", "o", "m", "m", "e", "n", "t", "s", "-", "-">>,
     <<"#", "i", "n", "c", "l", "u", "d", "-">>}

ExtentTables == {NoTables, [NoTables EXCEPT ![1] = {<<"a">>}]}

InitExtent ==
    \E d \in SeqsUpTo(SigmaExtent, MaxLenExtent) \cup ExtentSamples :
        \E tb \in ExtentTables :
            InitWith(d, tb, SCE_AHK_DEFAULT, SC_FOLDLEVELBASE)

NextExtent ==
    \/ LexSpan
    \/ ScanStep
    \/ ScanEnd

SpecExtent == InitExtent /\ [][NextExtent]_vars

\* the loop is about to read a character inside a Keyword token
ReadsInKeyword == pc = "scan" /\ More(sc) /\ sc.state = SCE_AHK_KEYWORD

\* the token goes on over the character read: same state, same segment
KeywordContinues ==
    sc'.state = SCE_AHK_KEYWORD /\ sc'.startSeg = sc.startSeg

\* the text of the token so far, lower-cased
WordSoFar == Lowered(SubSeq(doc, sc.startSeg + 1, sc.currentPos))

\* the two directives, written apart from the scanner's own list
DirectivePrefixes ==
    {<<"#", "c", "o", "m", "m", "e", "n", "t", "s">>,
     <<"#", "i", "n", "c", "l", "u", "d", "e">>}

\* the offset after the Keyword token opened at offset p, i the offset read
RECURSIVE ExtentEnd(_, _, _)
ExtentEnd(d, p, i) ==
    IF /\ i < Len(d)
       /\ \/ IsAWordChar(d[i + 1])
          \/ d[i + 1] = "$"
          \/ /\ d[i + 1] = "-"
             /\ Lowered(SubSeq(d, p + 1, i)) \in DirectivePrefixes
    THEN ExtentEnd(d, p, i + 1)
    ELSE i

\* C26 as stated: a Keyword token goes on over identifier characters and
\* over a '-' after one of the two directives, and over nothing else
C26_KeywordExtentAsStated ==
    [][ReadsInKeyword =>
          (KeywordContinues <=>
              \/ IsAWordChar(sc.ch)
              \/ sc.ch = "-" /\ WordSoFar \in DirectivePrefixes)]_vars

\* C26: a Keyword token goes on over identifier characters, over the type
\* character '$' and over a '-' after one of the two directives; every other
\* character, a line end included, ends it; the characters of one token
\* carry one style after the scan
C26_KeywordExtent ==
    /\ [][ReadsInKeyword =>
             (KeywordContinues <=>
                 /\ ~sc.atLineEnd
                 /\ \/ IsAWordChar(sc.ch)
                    \/ sc.ch = "$"
                    \/ sc.ch = "-" /\ WordSoFar \in DirectivePrefixes)]_vars
    /\ [](LexDone =>
             \A p \in 0..(SpanEnd - 1) :
                 sc.starts[p] = SCE_AHK_KEYWORD =>
                     \A i \in p..(SpanEnd - 1) :
                         i < ExtentEnd(doc, p, p + 1) =>
                             StyleAt(styles, i) = StyleAt(styles, p))

\* the loop is inside a Keyword token that went on over a '$'
C26_Witness ==
    /\ pc = "scan"
    /\ sc.state = SCE_AHK_KEYWORD
    /\ sc.chPrev = "$"
    /\ sc.startSeg < sc.currentPos - 1
    /\ sc.starts[sc.startSeg] = SCE_AHK_KEYWORD


(***************************************************************************)
(* Unmatched words: scans of the first characters of documents of words,   *)
(* underscores, type characters, blanks and line ends, with the word a in  *)
(* table 1, in table 8 or in no table                                      *)
(***************************************************************************)
MaxLenLoose == 4

SigmaLoose == {"a", "_", "$", " ", LF}

LooseTables ==
    {NoTables, [NoTables EXCEPT ![1] = {<<"a">>}],
     [NoTables EXCEPT ![8] = {<<"a">>}]}

InitLoose ==
    \E d \in SeqsUpTo(SigmaLoose, MaxLenLoose) :
        \E tb \in LooseTables :
            InitWith(d, tb, SCE_AHK_DEFAULT, SC_FOLDLEVELBASE)

NextLoose ==
    \/ LexSpan
    \/ ScanStep
    \/ ScanEnd

SpecLoose == InitLoose /\ [][NextLoose]_vars

\* the Keyword token opened at offset p has ended inside the loop of the
\* last scan: the loop has read the character after it
EndedInLoop(p) ==
    LET e == ExtentEnd(doc, p, p + 1)
    IN e < SpanEnd \/ req.startPos + req.length >= Len(doc)

\* C27: a Keyword token that ends inside the loop and whose text no table
\* holds is styled Operator when it is the single character '_' and Default
\* otherwise, and the character that ended it is read in the Default state;
\* a token that ended inside the loop carries the Keyword style only when
\* table 1 holds its text
C27_UnmatchedTokens ==
    LexDone =>
        \A p \in 0..(SpanEnd - 1) :
            (sc.starts[p] = SCE_AHK_KEYWORD /\ EndedInLoop(p)) =>
                LET e == ExtentEnd(doc, p, p + 1)
                    w == Lowered(SubSeq(doc, p + 1, e))
                IN /\ CategoriesOf(tables, w) = {} =>
                       /\ \A i \in p..(e - 1) :
                              StyleAt(styles, i) =
                                  IF w = <<"_">> THEN SCE_AHK_OPERATOR
                                  ELSE SCE_AHK_DEFAULT
                       /\ e < SpanEnd =>
                              /\ StyleAt(styles, e) = SCE_AHK_DEFAULT
                              /\ sc.starts[e] = "none"
                   /\ (\E i \in p..(e - 1) :
                           StyleAt(styles, i) = SCE_AHK_KEYWORD)
                      => w \in tables[1]

\* a scan has returned that ended, inside its loop, a single '_' and
\* another word that no table holds
C27_Witness ==
    /\ LexDone
    /\ \E p, q \in 0..(SpanEnd - 1) :
        /\ sc.starts[p] = SCE_AHK_KEYWORD
        /\ sc.starts[q] = SCE_AHK_KEYWORD
        /\ EndedInLoop(p)
        /\ EndedInLoop(q)
        /\ SubSeq(doc, p + 1, ExtentEnd(doc, p, p + 1)) = <<"_">>
        /\ StyleAt(styles, p) = SCE_AHK_OPERATOR
        /\ SubSeq(doc, q + 1, ExtentEnd(doc, q, q + 1)) = <<"a">>
        /\ CategoriesOf(tables, <<"a">>) = {}
        /\ StyleAt(styles, q) = SCE_AHK_DEFAULT


(***************************************************************************)
(* Members: scans of the first characters of documents of variables,       *)
(* points, words, digits and blanks, with the word a in table 1 or in no   *)
(* table                                                                   *)
(***************************************************************************)
MaxLenMember == 5

SigmaMember == {"$", ".", "a", "1", " "}

InitMember ==
    \E d \in SeqsUpTo(SigmaMember, MaxLenMember) :
        \E tb \in ExtentTables :
            InitWith(d, tb, SCE_AHK_DEFAULT, SC_FOLDLEVELBASE)

NextMember ==
    \/ LexSpan
    \/ ScanStep
    \/ ScanEnd

SpecMember == InitMember /\ [][NextMember]_vars

\* offset v holds a '.' that no digit follows
PlainDot(v) ==
    /\ v < Len(doc)
    /\ doc[v + 1] = "."
    /\ (v + 1 < Len(doc) => ~IsADigit(doc[v + 2]))

\* the offsets of the '.' that end a Variable token opened from Default
VariableDots ==
    {v \in 0..(SpanEnd - 1) :
        /\ PlainDot(v)
        /\ \E p \in 0..(v - 1) :
               /\ sc.starts[p] = SCE_AHK_VARIABLE
               /\ WordRunEnd(doc, p + 1) = v}

\* the offsets of the '.' read in the Operator state: those that end a
\* Variable token and those that open an Operator token from Default
OperatorDots ==
    VariableDots
    \cup {v \in 0..(SpanEnd - 1) :
             PlainDot(v) /\ sc.starts[v] = SCE_AHK_OPERATOR}

\* the style of the member that follows the '.' at offset v, with other as
\* the style of a member that table 1 does not hold: the member runs over
\* identifier characters, has ended inside the loop, and the character that
\* ended it is read in the Default state
MemberStyled(v, other) ==
    LET m == WordRunEnd(doc, v + 1)
        w == Lowered(SubSeq(doc, v + 2, m))
    IN (m > v + 1 /\ (m < SpanEnd \/ req.startPos + req.length >= Len(doc)))
       => /\ \A i \in (v + 1)..(m - 1) :
                 StyleAt(styles, i) =
                     IF w \in tables[1] THEN SCE_AHK_KEYWORD ELSE other
          /\ m < SpanEnd =>
                 \/ sc.starts[m] /= "none"
                 \/ doc[m + 1] = " " /\ StyleAt(styles, m) = SCE_AHK_DEFAULT

\* C28 as stated: the '.' after a Variable token is styled Operator and is
\* not opened from Default; the member after an Operator '.' is styled as
\* category 1 when table 1 holds its text and Default otherwise
C28_MemberAccessAsStated ==
    LexDone =>
        /\ \A v \in VariableDots :
               StyleAt(styles, v) = SCE_AHK_OPERATOR /\ sc.starts[v] = "none"
        /\ \A v \in OperatorDots : MemberStyled(v, SCE_AHK_DEFAULT)

\* C28: the '.' after a Variable token is styled Operator and is not opened
\* from Default; the member after an Operator '.' is styled as category 1
\* when table 1 holds its text and keeps the ComObjectMember style
\* otherwise, and the character that ends it is read in the Default state
C28_MemberAccess ==
    LexDone =>
        /\ \A v \in VariableDots :
               StyleAt(styles, v) = SCE_AHK_OPERATOR /\ sc.starts[v] = "none"
        /\ \A v \in OperatorDots : MemberStyled(v, SCE_AHK_COMOBJ)

\* a scan has returned that ended, inside its loop, a member after a
\* variable that the table 1 of the run does not hold
C28_Witness ==
    /\ LexDone
    /\ tables[1] /= {}
    /\ \E v \in VariableDots :
        LET m == WordRunEnd(doc, v + 1)
        IN /\ m > v + 1
           /\ m < SpanEnd
           /\ StyleAt(styles, v) = SCE_AHK_OPERATOR
           /\ StyleAt(styles, v + 1) = SCE_AHK_COMOBJ


(***************************************************************************)
(* Brackets: scans of the first characters of documents of brackets,       *)
(* quotes, words and blanks                                                *)
(***************************************************************************)
MaxLenBracket == 4

SigmaBracket == {"{", ")", "[", DQuote, "a", " "}

InitBracket ==
    \E d \in SeqsUpTo(SigmaBracket, MaxLenBracket) :
        InitWith(d, NoTables, SCE_AHK_DEFAULT, SC_FOLDLEVELBASE)

NextBracket ==
    \/ LexSpan
    \/ ScanStep
    \/ ScanEnd

SpecBracket == InitBracket /\ [][NextBracket]_vars

\* when the loop is about to read a character in the BracketFold state,
\* the token is the one character before it, a bracket that was read in the
\* Default state
FoldStateIsOneBracket ==
    (pc = "scan" /\ More(sc) /\ sc.state = SCE_AHK_FOLD) =>
        /\ sc.currentPos = sc.startSeg + 1
        /\ sc.starts[sc.startSeg] = SCE_AHK_FOLD
        /\ doc[sc.startSeg + 1] \in BracketChars

\* C29 as stated: the BracketFold state lasts one character, and after the
\* scan no character of the span has the BracketFold style
C29_BracketFoldTransientAsStated ==
    /\ FoldStateIsOneBracket
    /\ LexDone =>
           \A i \in 0..(SpanEnd - 1) : StyleAt(styles, i) /= SCE_AHK_FOLD

\* C29: the BracketFold state lasts one character, and after the scan the
\* characters of the span that have the BracketFold style are the brackets
\* that were read in the Default state, one character each
C29_BracketFoldTransient ==
    /\ FoldStateIsOneBracket
    /\ LexDone =>
           \A i \in 0..(SpanEnd - 1) :
               StyleAt(styles, i) = SCE_AHK_FOLD
                   <=> sc.starts[i] = SCE_AHK_FOLD

\* a scan has returned that read two brackets in a row in the Default
\* state, and a bracket inside a string
C29_Witness ==
    /\ LexDone
    /\ \E i \in 0..(SpanEnd - 2) :
        /\ sc.starts[i] = SCE_AHK_FOLD
        /\ sc.starts[i + 1] = SCE_AHK_FOLD
        /\ StyleAt(styles, i) = SCE_AHK_FOLD
    /\ \E i \in 0..(SpanEnd - 1) :
        doc[i + 1] \in BracketChars /\ StyleAt(styles, i) = SCE_AHK_STRING


(***************************************************************************)
(* Long words: scans of the first characters of documents that hold one    *)
(* word of about 99 letters and a blank, with the word of 99 letters in    *)
(* table 1 or in no table                                                  *)
(***************************************************************************)
\* the 100 bytes of CurWord and FullWord hold 99 characters
WordCap == 99

\* how far below and above the cap the lengths of the words go
MaxOverCap == 2

LongWord(n) == [i \in 1..n |-> "a"]

LongDocs ==
    {LongWord(n) \o <<" ">> : n \in (WordCap - MaxOverCap)..(WordCap + MaxOverCap)}

LongTables == {NoTables, [NoTables EXCEPT ![1] = {LongWord(WordCap)}]}

InitLong ==
    \E d \in LongDocs :
        \E tb \in LongTables :
            InitWith(d, tb, SCE_AHK_DEFAULT, SC_FOLDLEVELBASE)

NextLong ==
    \/ LexSpan
    \/ ScanStep
    \/ ScanEnd

SpecLong == InitLong /\ [][NextLong]_vars

\* the first n characters of w, or all of w when it is shorter
FirstChars(w, n) == SubSeq(w, 1, IF Len(w) < n THEN Len(w) ELSE n)

\* C30: at every step of a scan CurWord and FullWord hold at most 99
\* characters: CurWord is the first 99 characters of the token so far,
\* FullWord the first 99 of the token with the character read last; the scan
\* goes on to the end of its span, and a word of more than 99 letters is
\* classified by its first 99
C30_WordCap ==
    /\ (pc = "scan" /\ sc.state = SCE_AHK_KEYWORD) =>
           LET token == SubSeq(doc, sc.startSeg + 1, sc.currentPos)
               CurWord == GetCurrentLowered(doc, sc, 100)
           IN /\ Len(CurWord) <= WordCap
              /\ Len(sc.FullWord) <= WordCap
              /\ CurWord = FirstChars(Lowered(token), WordCap)
              /\ sc.FullWord = FirstChars(Lowered(token), WordCap)
    /\ req.op = "lex" => Len(sc.FullWord) <= WordCap
    /\ LexDone =>
           /\ sc.steps = MaxSteps
           /\ \A i \in 0..(SpanEnd - 1) : sc.writes[i + 1] = 1
           /\ (SpanEnd = Len(doc) /\ tables[1] /= {}) =>
                  \A i \in 0..(Len(doc) - 2) :
                      StyleAt(styles, i) =
                          IF Len(doc) - 1 >= WordCap THEN SCE_AHK_KEYWORD
                          ELSE SCE_AHK_DEFAULT

\* the loop is inside a word of more than 99 letters, FullWord holding 99
C30_Witness ==
    /\ pc = "scan"
    /\ sc.state = SCE_AHK_KEYWORD
    /\ sc.currentPos - sc.startSeg > WordCap
    /\ Len(sc.FullWord) = WordCap


(***************************************************************************)
(* Fold sensitivity: full scans, then folds of any range, of documents of  *)
(* brackets, comment marks, quotes, semicolons and line ends               *)
(***************************************************************************)
MaxLenSens == 3

SigmaSens == {"{", ")", "/", "*", DQuote, ";", LF}

InitSens ==
    \E d \in SeqsUpTo(SigmaSens, MaxLenSens) :
        InitWith(d, NoTables, SCE_AHK_DEFAULT, SC_FOLDLEVELBASE)

NextSens ==
    \/ LexFull
    \/ ScanStep
    \/ ScanEnd
    \/ FoldAny
    \/ FoldStep
    \/ FoldEnd

SpecSens == InitSens /\ [][NextSens]_vars

\* the fold loop is about to read the character at offset fd.i
FoldReads == pc = "fold" /\ fd.i < fd.endPos

\* C31: at each character the fold pass reads, the running level rises by
\* one at an opening bracket styled BracketFold and at a '*' styled
\* BlockComment that the pass read a '/' before, falls by one at a closing
\* bracket styled BracketFold and at a '/' styled BlockComment that the pass
\* read a '*' before, and stays as it is at every other character: at every
\* character styled String, LineComment or Default
C31_FoldSensitivity ==
    [][FoldReads =>
          /\ fd'.levelCurrent - fd.levelCurrent
                 = RunDelta(doc, styles, req.startPos, fd.i)
          /\ StyleAt(styles, fd.i) \notin {SCE_AHK_FOLD, SCE_AHK_COMMENTBLOCK}
                 => fd'.levelCurrent = fd.levelCurrent]_vars

\* the fold pass has just read a bracket inside a string, after another
\* character of its range, and the running level is the one it began with
C31_Witness ==
    /\ pc = "fold"
    /\ fd.i > req.startPos + 1
    /\ doc[fd.i] \in BracketChars
    /\ StyleAt(styles, fd.i - 1) = SCE_AHK_STRING
    /\ fd.levelCurrent = FoldSeed


(***************************************************************************)
(* Fold writes: full scans, folds of any range and a second fold of the    *)
(* same range, of documents of braces, words and line ends whose lines     *)
(* hold any of the seed levels before                                      *)
(***************************************************************************)
MaxLenWrite == 3

SigmaWrite == {"{", "}", "a", LF}

InitWrite ==
    \E d \in SeqsUpTo(SigmaWrite, MaxLenWrite) :
        \E lv \in SeedLevels :
            InitWith(d, NoTables, SCE_AHK_DEFAULT, lv)

NextWrite ==
    \/ LexFull
    \/ ScanStep
    \/ ScanEnd
    \/ FoldAny
    \/ FoldAgain
    \/ FoldStep
    \/ FoldEnd

SpecWrite == InitWrite /\ [][NextWrite]_vars

\* the lines whose stored value differs from the one before the fold call
ChangedLines ==
    {l \in 0..(Len(levels) - 1) : levels[l + 1] /= req.levelsBefore[l + 1]}

\* C32: during and after a fold call the lines SetLevel has been called for
\* are the lines whose stored value has changed, all of them lines whose
\* end lies in the range of the call; a second fold of the same range calls
\* SetLevel for no line
C32_FoldWritesOnChange ==
    req.op = "fold" =>
        /\ fd.written = ChangedLines
        /\ fd.written \subseteq FoldedLines
        /\ req.kind = "again" => fd.written = {}

\* a second fold of a range has returned, after a first fold that stored
\* the level of one line of its range and left another as it was
C32_Witness ==
    /\ FoldDone
    /\ req.kind = "again"
    /\ Cardinality(FoldedLines) >= 2
    /\ \E l \in FoldedLines : IsHeader(levels[l + 1])
    /\ \E l \in FoldedLines : levels[l + 1] = SC_FOLDLEVELBASE


(***************************************************************************)
(* Deep closing: a full scan and a full fold of documents whose first line *)
(* holds more closing braces than the base level counts, so that the       *)
(* running level of the fold pass falls below zero                         *)
(***************************************************************************)
\* how far below zero the running level falls
MaxBelow == 2

Closers(n) == [i \in 1..n |-> "}"]

DeepTails == {<<"a", LF>>, <<"{", LF, "a">>, <<"}", LF, "a", LF>>}

DeepDocs ==
    {Closers(SC_FOLDLEVELBASE + k) \o <<LF>> \o t :
        k \in 1..MaxBelow, t \in DeepTails}

InitDeep ==
    \E d \in DeepDocs :
        InitWith(d, NoTables, SCE_AHK_DEFAULT, SC_FOLDLEVELBASE)

NextDeep ==
    \/ LexFull
    \/ ScanStep
    \/ ScanEnd
    \/ FoldFull
    \/ FoldStep
    \/ FoldEnd

SpecDeep == InitDeep /\ [][NextDeep]_vars

\* the running level of a full fold from the base level at offset i
LevelAtOffset(i) ==
    SC_FOLDLEVELBASE
        + Cardinality({j \in 0..(i - 1) : RunDelta(doc, styles, 0, j) = 1})
        - Cardinality({j \in 0..(i - 1) : RunDelta(doc, styles, 0, j) = -1})

\* C33: after a full fold, a line at whose start the running level is
\* below zero holds that level, with or without the header flag, and its
\* header flag reads as set exactly when the running level is higher at the
\* line's end than at its start
C33_NegativeLevels ==
    (FoldDone /\ req.startPos = 0 /\ req.length = Len(doc)) =>
        \A l \in FoldedLines :
            LET first == LineStart(doc, l)
                last == LineStart(doc, l + 1) - 1
                e == IF last < Len(doc) - 1 THEN last ELSE Len(doc) - 1
                atStart == LevelAtOffset(first)
                atEnd == LevelAtOffset(e + 1)
            IN atStart < 0 =>
                   /\ levels[l + 1]
                          \in {atStart, BitOr(atStart, SC_FOLDLEVELHEADERFLAG)}
                   /\ IsHeader(levels[l + 1]) <=> atEnd > atStart


(***************************************************************************)
(* IsContinuationLine: lines 176-197, applied to a line of a scanned       *)
(* document                                                                *)
(***************************************************************************)
\* the while loop: nsPos stays, nePos walks back
RECURSIVE IsContinuationLoop(_, _, _, _)
IsContinuationLoop(d, st, nsPos, nePos) ==
    IF ~(nsPos < nePos) THEN FALSE
    ELSE LET stylech == StyleAt(st, nsPos)
             ch == SafeGetCharAt(d, nePos, " ")
         IN IF stylech /= SCE_AHK_COMMENT /\ ~isspacechar(ch)
            THEN ch = "_"
            ELSE IsContinuationLoop(d, st, nsPos, nePos - 1)

IsContinuationLine(d, st, szLine) ==
    IsContinuationLoop(d, st, LineStart(d, szLine), LineStart(d, szLine + 1) - 2)

\* IsContinuationLine(szLine, styler) applied to a line of the scanned text
ContinuationCall ==
    /\ pc = "idle"
    /\ req.op = "lex"
    /\ \E szLine \in 0..(LinesTotal(doc) - 1) :
           req' = [op |-> "cont", szLine |-> szLine,
                   result |-> IsContinuationLine(doc, styles, szLine)]
    /\ UNCHANGED <<doc, tables, styles, levels, endStyled, pc, sc, fd, prev,
                   runs, edits>>

MaxLenLine == 4

SigmaLine == {"a", "_", " ", ";", LF}

InitLine ==
    \E d \in SeqsUpTo(SigmaLine, MaxLenLine) :
        InitWith(d, NoTables, SCE_AHK_DEFAULT, SC_FOLDLEVELBASE)

NextLine ==
    \/ LexFull
    \/ ScanStep
    \/ ScanEnd
    \/ ContinuationCall

SpecLine == InitLine /\ [][NextLine]_vars

\* the offsets of a line's characters, its line feed left out
LineOffsets(d, l) ==
    {i \in LineStart(d, l)..(LineStart(d, l + 1) - 1) : d[i + 1] /= LF}

\* the offsets of a line that hold neither whitespace nor a character
\* styled as a line comment
SolidOffsets(d, st, l) ==
    {i \in LineOffsets(d, l) :
        ~isspacechar(d[i + 1]) /\ StyleAt(st, i) /= SCE_AHK_COMMENT}

EndsInUnderscore(d, st, l) ==
    /\ SolidOffsets(d, st, l) /= {}
    /\ LET last == CHOOSE i \in SolidOffsets(d, st, l) :
                       \A j \in SolidOffsets(d, st, l) : j <= i
       IN d[last + 1] = "_"

\* C34: IsContinuationLine(line) is true exactly when the last character of
\* the line that is neither whitespace nor styled LineComment is the
\* underscore
C34_ContinuationDetection ==
    req.op = "cont" =>
        (req.result <=> EndsInUnderscore(doc, styles, req.szLine))


(***************************************************************************)
(* GetSendKey: lines 108-171, applied as at line 656 to the lowered text   *)
(* of a bracketed key                                                      *)
(***************************************************************************)
\* GetSendKey(FullWord, sk), FullWord being the lowered text
SendKeyCall ==
    /\ pc = "idle"
    /\ req.op = "none"
    /\ LET r == GetSendKey(Lowered(doc))
       IN req' = [op |-> "sendkey", nFlag |-> r[1], sk |-> r[2]]
    /\ UNCHANGED <<doc, tables, styles, levels, endStyled, pc, sc, fd, prev,
                   runs, edits>>

\* the longest text after the first space of a bracketed key
MaxLenMod == 3

SigmaMod == {"u", "p", "U", "5", " "}

SendKeyTexts ==
    {pre \o <<"{">> \o name \o rest :
        pre \in {<<>>, <<"+">>},
        name \in {<<"a">>, <<"T", "a", "b">>},
        rest \in {<<"}">>}
                   \cup {<<" ">> \o m \o <<"}">> :
                            m \in SeqsUpTo(SigmaMod, MaxLenMod)}}

InitSend ==
    \E d \in SendKeyTexts :
        InitWith(d, NoTables, SCE_AHK_DEFAULT, SC_FOLDLEVELBASE)

NextSend == SendKeyCall

SpecSend == InitSend /\ [][NextSend]_vars

\* the offsets (1-based) of the opening brace, of the first space after it
\* (0 when there is none) and of the first character after that run of spaces
BraceAt(w) == CHOOSE i \in 1..Len(w) : w[i] = "{" /\ \A j \in 1..(i - 1) : w[j] /= "{"

FirstSpace(w) ==
    IF \E i \in BraceAt(w)..Len(w) : w[i] = " "
    THEN CHOOSE i \in BraceAt(w)..Len(w) :
             w[i] = " " /\ \A j \in BraceAt(w)..(i - 1) : w[j] /= " "
    ELSE 0

AfterSpaces(w) ==
    CHOOSE i \in FirstSpace(w)..Len(w) :
        w[i] /= " " /\ \A j \in FirstSpace(w)..(i - 1) : w[j] = " "

\* the name part from the brace, and the modifier part: what lies between
\* the run of spaces and the closing brace, spaces before the brace left out
NamePart(w) ==
    IF FirstSpace(w) = 0 THEN SubSeq(w, BraceAt(w), Len(w) - 1)
    ELSE SubSeq(w, BraceAt(w), FirstSpace(w) - 1)

\* the last offset before the closing brace that holds no space
BeforeBrace(w) ==
    CHOOSE i \in 1..(Len(w) - 1) :
        w[i] /= " " /\ \A j \in (i + 1)..(Len(w) - 1) : w[j] = " "

ModifierPart(w) ==
    IF FirstSpace(w) = 0 THEN <<>>
    ELSE SubSeq(w, AfterSpaces(w), BeforeBrace(w))

ValidModifier(m) ==
    \/ m = <<>>
    \/ Lowered(m) \in SendKeyModifiers
    \/ \A i \in 1..Len(m) : IsADigit(m[i])

\* C35: GetSendKey reports 0 exactly when the text after the first run of
\* spaces is empty, is one of down, up, on, off, toggle in any case, or is
\* made of decimal digits only, and 1 otherwise; the key it gives back is
\* the name part from the opening brace with a closing brace appended
C35_SendKeyModifier ==
    req.op = "sendkey" =>
        /\ req.nFlag = (IF ValidModifier(ModifierPart(doc)) THEN 0 ELSE 1)
        /\ req.sk = Lowered(NamePart(doc)) \o <<"}">>


(***************************************************************************)
(* The adjustment of the start, under SpecAny: a scan of any span of the   *)
(* document with any start style                                           *)
(***************************************************************************)
\* a call whose span lies within the document
AnyCallWithin ==
    /\ req.op = "lex"
    /\ req.kind = "any"
    /\ req.startPos + req.length <= Len(doc)

\* the offset the scan stops at: StyleContext holds Length() + 1 for a span
\* that reaches the document's end
ScannedEnd == IF sc.endPos > Len(doc) THEN Len(doc) ELSE sc.endPos

\* C36: the actual start never lies after the requested start; from Default
\* the start and the state are kept; a start moved back is the start of a
\* line, the state is then Default, and the span still ends at the requested
\* end
C36_RestartBounds ==
    AnyCallWithin =>
        /\ req.actualStart <= req.startPos
        /\ req.initStyle = SCE_AHK_DEFAULT =>
               /\ req.actualStart = req.startPos
               /\ req.initState = SCE_AHK_DEFAULT
        /\ req.actualStart < req.startPos =>
               /\ req.actualStart = LineStart(doc, GetLine(doc, req.actualStart))
               /\ req.initState = SCE_AHK_DEFAULT
               /\ ScannedEnd = req.startPos + req.length

C36_Witness ==
    /\ AnyCallWithin
    /\ pc = "idle"
    /\ req.initStyle /= SCE_AHK_DEFAULT
    /\ req.actualStart < req.startPos
    /\ req.length > 0
    /\ req.startPos + req.length < Len(doc)


(***************************************************************************)
(* Line ends: a full scan of documents made of a short text, a line feed   *)
(* and the start of a further line, with the word a in table 6, in table 7 *)
(* or in none                                                              *)
(***************************************************************************)
MaxLenCarry == 3

SigmaCarry ==
    {"a", "1", ";", "+", ".", "%", "{", "/", "*", DQuote, BackTick, LF}

CarryTables ==
    {[k \in 1..8 |-> IF k = c THEN {<<"a">>} ELSE {}] : c \in {0, 6, 7}}

InitCarry ==
    \E t \in SeqsUpTo(SigmaCarry, MaxLenCarry) :
        \E u \in {<<>>, <<"a">>} :
            \E tb \in CarryTables :
                InitWith(t \o <<LF>> \o u, tb, SCE_AHK_DEFAULT,
                         SC_FOLDLEVELBASE)

NextCarry ==
    \/ LexFull
    \/ ScanStep
    \/ ScanEnd

SpecCarry == InitCarry /\ [][NextCarry]_vars

\* the states that may be in effect at the start of a line
CarriedStyles ==
    {SCE_AHK_DEFAULT, SCE_AHK_STRING, SCE_AHK_COMMENTBLOCK, SCE_AHK_ASSIGNMENT}

\* the scan is about to handle the first character of a line after the first
AtLineStart ==
    /\ pc = "scan"
    /\ More(sc)
    /\ sc.currentPos > 0
    /\ doc[sc.currentPos] = LF

RECURSIVE FoldLoop(_, _, _, _)
FoldLoop(d, st, lv, f) ==
    IF f.i < f.endPos
    THEN LET r == FoldBody(d, st, lv, f) IN FoldLoop(d, st, r[2], r[1])
    ELSE lv

\* a whole call: the levels of the document after it
FoldAhkDoc(d, st, lv, startPos, length) ==
    FoldLoop(d, st, lv, FoldAhkDocEnter(d, lv, startPos, length))

LineStarts(d) == {LineStart(d, l) : l \in 0..(LinesTotal(d) - 1)}

\* the host calls FoldAhkDoc(0, k) for a line start k
FoldHead == \E k \in LineStarts(doc) : Fold("head", 0, k)

\* and then FoldAhkDoc(k, n - k)
FoldRest ==
    /\ pc = "idle"
    /\ req.op = "fold"
    /\ req.kind = "head"
    /\ fd' = FoldAhkDocEnter(doc, levels, req.length, Len(doc) - req.length)
    /\ pc' = "fold"
    /\ req' = [op |-> "fold", kind |-> "rest", startPos |-> req.length,
               length |-> Len(doc) - req.length, afterFull |-> req.afterFull,
               levelsBefore |-> levels, levelsFirst |-> req.levelsBefore]
    /\ UNCHANGED <<doc, tables, styles, levels, endStyled, sc, prev, runs,
                   edits>>

MaxLenChunk == 3

SigmaChunk == {"{", "}", "a", LF}

InitChunk ==
    \E d \in SeqsUpTo(SigmaChunk, MaxLenChunk) :
        InitWith(d, NoTables, SCE_AHK_DEFAULT, SC_FOLDLEVELBASE)

NextChunk ==
    \/ LexFull
    \/ ScanStep
    \/ ScanEnd
    \/ FoldHead
    \/ FoldRest
    \/ FoldStep
    \/ FoldEnd

SpecChunk == InitChunk /\ [][NextChunk]_vars

\* C38: after the folds of [0,k) and of [k,n), k a line start, every line
\* holds the value one fold of [0,n) gives it, and the second call was
\* seeded with the running level the single fold has at offset k
C38_ChunkedFolding ==
    (FoldDone /\ req.kind = "rest") =>
        /\ levels = FoldAhkDoc(doc, styles, req.levelsFirst, 0, Len(doc))
        /\ FoldSeed
             = BitAnd(LevelAt(req.levelsFirst, 0), SC_FOLDLEVELNUMBERMASK)
                   + RunSum(doc, styles, 0, req.startPos)


(***************************************************************************)
(* Comment marks: a full scan and a full fold of documents of '/', '*'     *)
(* and blanks                                                              *)
(***************************************************************************)
MaxLenNest == 7

SigmaNest == {"/", "*", " "}

InitNest ==
    \E d \in SeqsUpTo(SigmaNest, MaxLenNest) :
        InitWith(d, NoTables, SCE_AHK_DEFAULT, SC_FOLDLEVELBASE)

NextNest ==
    \/ LexFull
    \/ ScanStep
    \/ ScanEnd
    \/ FoldFull
    \/ FoldStep
    \/ FoldEnd

SpecNest == InitNest /\ [][NextNest]_vars

\* the scan opened a block comment at offset p and closed it: its closing
\* '/' lies in the document
ClosedComment(p) ==
    /\ sc.starts[p] = SCE_AHK_COMMENTBLOCK
    /\ CommentEnd(doc, p) < Len(doc)

\* C39: when the fold pass has just passed the closing '/' of a block
\* comment that the scan opened and closed, its running level is the level
\* it had at the comment's opening '/'
C39_BalancedComments ==
    (pc = "fold" /\ req.startPos = 0) =>
        \A p \in 0..(Len(doc) - 1) :
            (ClosedComment(p) /\ fd.i = CommentEnd(doc, p) + 1) =>
                fd.levelCurrent = FoldSeed + RunSum(doc, styles, 0, p)

====
